---- MODULE Spec2Model ----
(***************************************************************************)
(* Djapian indexer: the write path (Indexer.update / delete / clear, with  *)
(* transactional batching and flush policy), the sort-value encoding       *)
(* (Field.convert) and the sort translation of the read path               *)
(* (Indexer._do_search), modelled from src/src/djapian/indexer.py.         *)
(*                                                                         *)
(* The search engine (xapian.WritableDatabase, xapian.Enquire) is an       *)
(* external library.  Its operations are modelled by the contract of its   *)
(* API documentation:                                                      *)
(*   - begin_transaction(flushed): commits pending changes first when      *)
(*     flushed; raises InvalidOperationError inside a transaction;         *)
(*   - commit_transaction: "in all cases the transaction will no longer be *)
(*     in progress"; a flushed transaction commits to disk and may fail,   *)
(*     and then none of its modifications are applied;                     *)
(*   - cancel_transaction: raises InvalidOperationError when no            *)
(*     transaction is in progress; otherwise discards the pending          *)
(*     modifications, which for an unflushed transaction includes "any     *)
(*     changes which were pending before the transaction began";           *)
(*   - flush: raises InvalidOperationError inside a transaction;           *)
(*   - replace_document(term, doc) / delete_document(term): by unique term.*)
(* Strings that are compared character by character are sequences of       *)
(* character codes; the other strings are TLA+ strings.                    *)
(***************************************************************************)
EXTENDS Integers, Sequences, FiniteSets, TLC

\* ---- bounds -------------------------------------------------------------
MaxPk == 2
MaxCount == 1
MaxMatches == 41
MaxBatch == 1002

\* ---- program constants --------------------------------------------------
free_values_start_number == 11
FlushEvery == 1000
IntWidth == 12

PKs == 1..MaxPk

\* Python integers as sign and magnitude hi * 10^6 + lo (0 <= lo < 10^6), so
\* that values up to and beyond 10^12 stay inside the checker's integer range.
IntVal(n) == [neg |-> FALSE, hi |-> 0, lo |-> n]

\* asset_count values a record can hold (9 and 10 differ in digit count)
CountChoices == {IntVal(9 + k) : k \in 0..MaxCount}

ModelName == "djapian.Entry"
Descriptor == "djapian.tests.utils.entryindexer"

None == "None"

VARIABLES
    binding,   \* the keyword the build's begin_transaction takes: "flushed" | "flush"
    recs,      \* the host store: pk -> the Entry with that primary key
    docs,      \* the index as the write session sees it, in docid order
    disk,      \* the index as last flushed (what readers and a cancel see)
    tx,        \* engine transaction state: "none" | "flushed" | "unflushed"
    pc,        \* position of the update call: "idle" | "loop" | "body" | "flush"
    args,      \* arguments of the running update call
    queue,     \* records of the batch still to be processed, in page order
    counter,   \* counter[0] of update
    log,       \* records processed by the last started update, with what failed
    trace,     \* the engine calls of the last started update, in order, each
               \* with the transaction state it met and the error it raised;
               \* an entry "record" where the loop takes the next record
    out,       \* result of the last finished public call
    prior,     \* summary of the last finished update, while nothing changed
               \* since: its arguments, log and index, and whether it repeated
               \* the update before it (with the log and the index of that one)
    found,     \* result of the last _do_search
    cv,        \* inputs and results of the last Field.convert pair
    pq,        \* inputs and results of the last _parse_query pair
    rel,       \* inputs and results of the last _do_related
    changes,   \* the change log (Change.objects), newest entry first
    poll       \* position of update_changes: its options, the entries of
               \* the pass still to be processed, and the passes begun

vars == <<binding, recs, docs, disk, tx, pc, args, queue, counter, log, trace, out,
          prior, found, cv, pq, rel, changes, poll>>

\* update's documents argument: None, or a list of records
NoDocuments == [none |-> TRUE, list |-> <<>>]
Documents(q) == [none |-> FALSE, list |-> q]

NoArgs == [documents |-> NoDocuments, after_index |-> FALSE, transaction |-> FALSE,
           flush |-> FALSE, caller |-> "none"]
NoRun == [args |-> NoArgs, log |-> <<>>, docs |-> <<>>, exc |-> "none",
          again |-> FALSE, was |-> <<>>, first |-> <<>>]
NoOut == [op |-> "none", pk |-> 0, err |-> "none", exc |-> "none", before |-> <<>>]
\* _do_search's order_by argument: None, or a string
NoOrder == [none |-> TRUE, s |-> <<>>]
Order(s) == [none |-> FALSE, s |-> s]

\* the string 'RELEVANCE'
RELEVANCE == <<82, 69, 76, 69, 86, 65, 78, 67, 69>>

\* tag_index's None
NoSlot == 0 - 1

NoFound == [query |-> <<>>, order_by |-> NoOrder, exc |-> "none", by |-> "none",
            valueno |-> NoSlot, ascending |-> TRUE, parsed |-> FALSE, mset |-> <<>>]
NoCv == [kind |-> "none", a |-> IntVal(0), b |-> IntVal(0), declared |-> None,
         ea |-> <<>>, eb |-> <<>>]

NoParsed == [op |-> "OR", terms |-> {}]
NoPq == [exc |-> "none", name |-> <<>>, alias |-> <<>>, word |-> <<>>,
         collides |-> FALSE, missing |-> FALSE, by_name |-> NoParsed,
         by_lower |-> NoParsed,
         by_alias |-> NoParsed, stemming_lang |-> None, setting |-> None,
         stemmer |-> None]
NoRel == [n |-> 0 - 1, count |-> 0, rset |-> {}, tags |-> <<>>, terms |-> {},
          added |-> <<>>, tokens |-> <<>>, query |-> <<>>]

\* update_changes is not running
NoPoll == [pc |-> "none", once |-> FALSE, transaction |-> FALSE, flush |-> FALSE,
           todo |-> <<>>, passes |-> 0, exc |-> "none"]

\* ---- strings as character codes -----------------------------------------
RECURSIVE DecDigits(_)
\* decimal digits of n >= 0, most significant first, as character codes
DecDigits(n) ==
    IF n < 10 THEN <<48 + n>> ELSE DecDigits(n \div 10) \o <<48 + (n % 10)>>

RECURSIVE Fill(_, _)
\* n copies of character c
Fill(c, n) == IF n <= 0 THEN <<>> ELSE <<c>> \o Fill(c, n - 1)

\* '%d' of the magnitude of a Python integer
Magnitude(v) ==
    IF v.hi = 0 THEN DecDigits(v.lo)
    ELSE LET l == DecDigits(v.lo)
         IN DecDigits(v.hi) \o Fill(48, 6 - Len(l)) \o l

\* '%d' % v: the sign and the digits, with no padding
FormatNoPad(width, v) ==
    (IF v.neg THEN <<45>> ELSE <<>>) \o Magnitude(v)

\* '%0<width>d' % v: sign first, then zeros up to the width, never truncating
FormatZeroPad(width, v) ==
    LET m == Magnitude(v)
        s == IF v.neg THEN <<45>> ELSE <<>>
    IN s \o Fill(48, width - Len(s) - Len(m)) \o m

\* str.lower, str.upper and str.islower on ASCII character codes
lower(s) == [i \in 1..Len(s) |-> IF s[i] \in 65..90 THEN s[i] + 32 ELSE s[i]]

upper(s) == [i \in 1..Len(s) |-> IF s[i] \in 97..122 THEN s[i] - 32 ELSE s[i]]

islower(s) ==
    /\ \E i \in 1..Len(s) : s[i] \in 97..122
    /\ \A i \in 1..Len(s) : s[i] \notin 65..90

\* s.startswith(p)
startswith(s, p) == Len(p) <= Len(s) /\ SubSeq(s, 1, Len(p)) = p

\* s[n:]
SliceFrom(s, n) == SubSeq(s, n + 1, Len(s))

\* The engine stores terms and values as strings.  The printable characters
\* from the blank (code 32) to '_' (95) and from 'a' (97) to '~' (126):
Printable ==
    " !\"#$%&'()*+,-./0123456789:;<=>?@ABCDEFGHIJKLMNOPQRSTUVWXYZ[\\]^_"

PrintableLower == "abcdefghijklmnopqrstuvwxyz{|}~"

\* the character with code c, as a string
chr(c) ==
    IF c < 96 THEN SubSeq(Printable, c - 31, c - 31)
    ELSE SubSeq(PrintableLower, c - 96, c - 96)

\* the code of the character ch
ord(ch) == CHOOSE c \in (32..95) \cup (97..126) : chr(c) = ch

RECURSIVE TextFrom(_, _)
\* the string of the character codes s from position i on
TextFrom(s, i) == IF i > Len(s) THEN "" ELSE chr(s[i]) \o TextFrom(s, i + 1)

\* the string of the character codes s
Text(s) == TextFrom(s, 1)

\* the character codes of the string t
Codes(t) == [i \in 1..Len(t) |-> ord(SubSeq(t, i, i))]

RECURSIVE StrLess(_, _)
\* Python's < on strings: lexicographic on character codes
StrLess(a, b) ==
    IF b = <<>> THEN FALSE
    ELSE IF a = <<>> THEN TRUE
    ELSE IF a[1] # b[1] THEN a[1] < b[1]
    ELSE StrLess(Tail(a), Tail(b))

\* numeric order of two Python integers
IntLess(x, y) ==
    LET magLess(p, q) == p.hi < q.hi \/ (p.hi = q.hi /\ p.lo < q.lo)
        zero(v) == v.hi = 0 /\ v.lo = 0
    IN IF x.neg /\ ~zero(x)
       THEN IF y.neg /\ ~zero(y) THEN magLess(y, x) ELSE TRUE
       ELSE IF y.neg /\ ~zero(y) THEN FALSE ELSE magLess(x, y)

\* a datetime.datetime value
Datetime(year, month, day, hour, minute, second, microsecond) ==
    [year |-> year, month |-> month, day |-> day, hour |-> hour,
     minute |-> minute, second |-> second, microsecond |-> microsecond]

\* '%0<width>d' % n for n >= 0
ZeroPad(width, n) == Fill(48, width - Len(DecDigits(n))) \o DecDigits(n)

\* value.strftime('%Y%m%d%H%M%S')
strftime(d) ==
    ZeroPad(4, d.year) \o ZeroPad(2, d.month) \o ZeroPad(2, d.day)
    \o ZeroPad(2, d.hour) \o ZeroPad(2, d.minute) \o ZeroPad(2, d.second)

\* str(datetime): ISO format with a blank between date and time, and the
\* microseconds when there are any
StrDatetime(d) ==
    ZeroPad(4, d.year) \o <<45>> \o ZeroPad(2, d.month) \o <<45>> \o ZeroPad(2, d.day)
    \o <<32>> \o ZeroPad(2, d.hour) \o <<58>> \o ZeroPad(2, d.minute)
    \o <<58>> \o ZeroPad(2, d.second)
    \o (IF d.microsecond = 0 THEN <<>> ELSE <<46>> \o ZeroPad(6, d.microsecond))

\* the last position of s that holds another character than c, 0 when
\* there is none
LastOther(s, c) ==
    Cardinality({i \in 1..Len(s) : \E j \in i..Len(s) : s[j] # c})

\* the number of zeros s begins with
LeadingZeros(s) ==
    Cardinality({i \in 1..Len(s) : \A j \in 1..i : s[j] = 48})

\* the digits without their trailing zeros
StripZeros(s) == SubSeq(s, 1, LastOther(s, 48))

\* the digits s with the digit at position k raised by one and zeros after
\* it; a leading 1 when k is 0
IncrementAt(s, k) ==
    IF k = 0 THEN <<49>> \o Fill(48, Len(s))
    ELSE [i \in 1..Len(s) |->
             IF i < k THEN s[i] ELSE IF i = k THEN s[i] + 1 ELSE 48]

\* the decimal number of the digits, plus one
Increment(s) == IncrementAt(s, LastOther(s, 57))

\* the decimals d after the point, '0' when there are none
Decimals(d) == <<46>> \o (IF d = <<>> THEN <<48>> ELSE d)

\* the digits r, rounded already, with the last `keep` of them as decimals
Fixed(r, keep) ==
    SubSeq(r, 1, Len(r) - keep)
    \o Decimals(StripZeros(SubSeq(r, Len(r) - keep + 1, Len(r))))

\* the exponent form of 0.00..0m: the digits m behind `zeros` zeros
Exponent(m, zeros) ==
    <<m[1]>> \o (IF Len(m) > 1 THEN <<46>> \o SubSeq(m, 2, Len(m)) ELSE <<>>)
    \o <<101, 45>> \o ZeroPad(2, zeros + 1)

\* A Python float written as a decimal of at most ten places, as sign,
\* integer part (below 2^31) and the decimal places in two groups of five:
\* the float is the binary double nearest to whole + fhi / 10^5 + flo / 10^10
FloatVal(neg, whole, fhi, flo) ==
    [neg |-> neg, whole |-> whole, fhi |-> fhi, flo |-> flo]

\* A number below 10^10 as two groups of five decimal digits.
Pair(hi, lo) == [hi |-> hi, lo |-> lo]

PairLess(p, q) == p.hi < q.hi \/ (p.hi = q.hi /\ p.lo < q.lo)

\* n * p for n <= 2^14 and p < 10^10
Times(p, n) == Pair(n * p.hi + (n * p.lo) \div 100000, (n * p.lo) % 100000)

\* p modulo 10^10
Low(p) == Pair(p.hi % 100000, p.lo)

RECURSIVE Scaled(_, _)
\* p * 2^k modulo 10^10
Scaled(p, k) ==
    IF k <= 14 THEN Low(Times(p, 2^k)) ELSE Scaled(Low(Times(p, 2^14)), k - 14)

RECURSIVE Grown(_, _)
\* p * 2^k, or some number of 10^10 or more when the product is that large
Grown(p, k) ==
    IF p.hi >= 100000 THEN p
    ELSE IF k <= 14 THEN Times(p, 2^k)
    ELSE Grown(Times(p, 2^14), k - 14)

\* 10^10 - p for 0 < p < 10^10
Complement(p) ==
    IF p.lo = 0 THEN Pair(100000 - p.hi, 0) ELSE Pair(99999 - p.hi, 100000 - p.lo)

RECURSIVE Log2(_)
\* the position of the leading bit of n >= 1
Log2(n) == IF n < 2 THEN 0 ELSE 1 + Log2(n \div 2)

\* The double of a decimal x >= 1 with the integer part `whole` is m / 2^k
\* with 2^52 <= m <= 2^53, m the integer nearest to x * 2^k:
Scale(whole) == 52 - Log2(whole)

\* The double of whole + fhi / 10^5 + flo / 10^10 differs from that decimal by
\* a / (10^10 * 2^k), upwards when `up`: x * 2^k leaves the remainder
\* r = (fhi, flo) * 2^k modulo 10^10 over an integer, and m is that integer
\* when r is below 10^10 / 2 and the next one when it is above.  (r is never
\* 10^10 / 2: that needs k <= 9, and k is at least 22 for whole < 2^31.)
Deviation(r, k) ==
    IF r.hi >= 50000 THEN [up |-> TRUE, a |-> Complement(r), k |-> k]
    ELSE [up |-> FALSE, a |-> r, k |-> k]

Double(whole, fhi, flo) == Deviation(Scaled(Pair(fhi, flo), Scale(whole)), Scale(whole))

\* p \div n and p % n for n <= 2^14
Over(p, n) == Pair(p.hi \div n, ((p.hi % n) * 100000 + p.lo) \div n)

Rest(p, n) == ((p.hi % n) * 100000 + p.lo) % n

RECURSIVE Halved(_, _, _)
\* q \div 2^k, and whether the division, or one before it, left a remainder
Halved(q, k, sticky) ==
    IF k <= 14 THEN [q |-> Over(q, 2^k), sticky |-> sticky \/ Rest(q, 2^k) # 0]
    ELSE Halved(Over(q, 2^14), k - 14, sticky \/ Rest(q, 2^14) # 0)

\* the integer nearest to a / 2^k, the even one of two that are equally near
\* when counted from an even number and the odd one when counted from an odd
\* number; h is a / 2^(k - 1)
Nearest(h, odd) ==
    (h.q.lo \div 2)
    + (IF h.q.lo % 2 = 1 /\ (h.sticky \/ (odd # ((h.q.lo \div 2) % 2 = 1)))
       THEN 1 ELSE 0)

\* the decimal of ten places nearest to the double d of v, in units of 10^-10
\* from v
Drift(v, d) ==
    LET n == Nearest(Halved(d.a, d.k - 1, FALSE), v.flo % 2 = 1)
    IN IF d.up THEN n ELSE 0 - n

\* v moved by n units of 10^-10, |n| < 10^5: the digits of the integer part
\* and the two groups of decimals
Moved(v, n) ==
    LET lo == v.flo + n + 100000
        hi == v.fhi + (lo \div 100000) - 1 + 100000
    IN [neg |-> v.neg,
        whole |-> IF hi >= 200000 THEN Increment(DecDigits(v.whole))
                  ELSE DecDigits(v.whole + (hi \div 100000) - 1),
        fhi |-> hi % 100000, flo |-> lo % 100000]

\* the decimal of ten places nearest to the double of v: v itself below 2^19,
\* where doubles are less than 10^-10 apart
Places(v) ==
    IF v.whole < 524288 THEN Moved(v, 0)
    ELSE Moved(v, Drift(v, Double(v.whole, v.fhi, v.flo)))

\* sign, the digits of the integer part with no padding, the point and the
\* ten decimal places
Plain(p) ==
    (IF p.neg THEN <<45>> ELSE <<>>) \o p.whole \o <<46>>
    \o ZeroPad(5, p.fhi) \o ZeroPad(5, p.flo)

\* '%.10f' % v: the double rounded to ten decimal places
FormatFloat(v) == Plain(Places(v))

RECURSIVE Number(_)
\* the number the decimal digits s denote
Number(s) == IF s = <<>> THEN 0 ELSE 10 * Number(SubSeq(s, 1, Len(s) - 1)) + (s[Len(s)] - 48)

\* On which side of delta / 10^10 below its decimal the double d lies: 1
\* above, -1 below, 0 on it.  This is the sign of delta * 2^k + a (a counted
\* negative when d is not up).
Side(delta, d) ==
    LET size == IF delta < 0 THEN 0 - delta ELSE delta
        far == Grown(Pair(size \div 100000, size % 100000), d.k)
        apart == d.a # Pair(0, 0)
    IN IF delta = 0 THEN (IF ~apart THEN 0 ELSE IF d.up THEN 1 ELSE -1)
       ELSE IF delta > 0
       THEN (IF d.up \/ PairLess(d.a, far) THEN 1 ELSE IF d.a = far THEN 0 ELSE -1)
       ELSE (IF ~d.up \/ ~apart \/ PairLess(d.a, far) THEN -1
             ELSE IF d.a = far THEN 0 ELSE 1)

\* the twelve digits `kept`, raised by one when the double lies above the
\* middle between the two numbers of twelve digits around it, or on it and
\* kept is odd
Rounded(kept, side) ==
    IF side > 0 \/ (side = 0 /\ kept[Len(kept)] % 2 = 1) THEN Increment(kept) ELSE kept

\* '%.12g' of the double nearest to the number with the digits `whole`
\* before the point and ten decimals `frac` after it, with '.0' added to a
\* result that has neither point nor exponent: twelve significant digits,
\* trailing zeros dropped, the exponent form below 10^-4.  Up to two digits
\* before the point all ten decimals are kept; from three digits on the
\* double is rounded where its twelfth digit ends.
General(whole, frac) ==
    IF whole = <<48>>
    THEN IF LeadingZeros(frac) = Len(frac) THEN <<48, 46, 48>>
         ELSE IF LeadingZeros(frac) >= 4
         THEN Exponent(StripZeros(SubSeq(frac, LeadingZeros(frac) + 1, Len(frac))),
                       LeadingZeros(frac))
         ELSE <<48>> \o Decimals(StripZeros(frac))
    ELSE IF 12 - Len(whole) >= Len(frac) THEN whole \o Decimals(StripZeros(frac))
    ELSE Fixed(Rounded(whole \o SubSeq(frac, 1, 12 - Len(whole)),
                       Side(Number(SubSeq(frac, 13 - Len(whole), Len(frac)))
                                - 5 * 10^(Len(whole) - 3),
                            Double(Number(whole), Number(SubSeq(frac, 1, 5)),
                                   Number(SubSeq(frac, 6, 10))))),
               12 - Len(whole))

\* str(float) of Python 2
StrFloat(v) ==
    (IF v.neg THEN <<45>> ELSE <<>>)
    \o General(DecDigits(v.whole), ZeroPad(5, v.fhi) \o ZeroPad(5, v.flo))

\* ---- Field.convert ------------------------------------------------------
\* A resolved value is [kind, v] with kind "int", "bool", "float", "datetime",
\* "str", "model" or "none" (Python's None); declared is the class of the
\* model field the path names, or None when the model has no such field
\* (FieldDoesNotExist).
IntegerFields == {"IntegerField", "PositiveIntegerField", "int", "bool"}

convert(field_value, declared) ==
    LET content_type == IF declared = None THEN field_value.kind ELSE declared
    IN IF content_type \in IntegerFields
       THEN FormatZeroPad(IntWidth,
                IF field_value.kind = "bool"
                THEN IntVal(IF field_value.v THEN 1 ELSE 0)
                ELSE field_value.v)
       ELSE IF content_type = "BooleanField"
       THEN IF field_value.v THEN <<116>> ELSE <<102>>
       ELSE IF content_type \in {"DateTimeField", "datetime"}
       THEN strftime(field_value.v)
       ELSE IF content_type \in {"float", "FloatField"}
       THEN FormatFloat(field_value.v)
       ELSE field_value.v

\* ---- Indexer configuration (EntryIndexer of tests/utils.py) --------------
\* Names that the code compares character by character, as character codes:
\* the tags "author", "title", "tag", "date", "active", "count", "editors" and
\* "rating", the aliases "subject" and "user", and the texts "Alex", "Test"
\* and "djapian".
NameAuthor == <<97, 117, 116, 104, 111, 114>>
NameTitle == <<116, 105, 116, 108, 101>>
NameTag == <<116, 97, 103>>
NameDate == <<100, 97, 116, 101>>
NameActive == <<97, 99, 116, 105, 118, 101>>
NameCount == <<99, 111, 117, 110, 116>>
NameEditors == <<101, 100, 105, 116, 111, 114, 115>>
NameRating == <<114, 97, 116, 105, 110, 103>>
NameSubject == <<115, 117, 98, 106, 101, 99, 116>>
NameUser == <<117, 115, 101, 114>>
PersonName == <<65, 108, 101, 120>>
EntryTitle == <<84, 101, 115, 116>>
EntryText == <<100, 106, 97, 112, 105, 97, 110>>

\* the weight of a field declared without one
DEFAULT_WEIGHT == 1

\* the declarations of the indexer class: free-text fields, tags as
\* (prefix, path, weight) with the path split at its dots, and aliases by tag
DeclaredFields == << [prefix |-> <<>>, path |-> <<"text">>, weight |-> DEFAULT_WEIGHT] >>

DeclaredTags ==
    << [prefix |-> NameAuthor, path |-> <<"author", "name">>, weight |-> DEFAULT_WEIGHT],
       [prefix |-> NameTitle, path |-> <<"title">>, weight |-> 3],
       [prefix |-> NameTag, path |-> <<"tags">>, weight |-> 2],
       [prefix |-> NameDate, path |-> <<"created_on">>, weight |-> DEFAULT_WEIGHT],
       [prefix |-> NameActive, path |-> <<"is_active">>, weight |-> DEFAULT_WEIGHT],
       [prefix |-> NameCount, path |-> <<"asset_count">>, weight |-> DEFAULT_WEIGHT],
       [prefix |-> NameEditors, path |-> <<"editors">>, weight |-> DEFAULT_WEIGHT],
       [prefix |-> NameRating, path |-> <<"rating">>, weight |-> DEFAULT_WEIGHT] >>

DeclaredAliases == << [tag |-> NameTitle, names |-> <<NameSubject>>],
                     [tag |-> NameAuthor, names |-> <<NameUser>>] >>

\* model._meta.get_field(name): the class of a declared field of Entry, None
\* otherwise
get_field(name) ==
    IF name = "author" THEN "ForeignKey"
    ELSE IF name = "title" THEN "CharField"
    ELSE IF name = "tags" THEN "CharField"
    ELSE IF name = "created_on" THEN "DateTimeField"
    ELSE IF name = "rating" THEN "FloatField"
    ELSE IF name = "asset_count" THEN "PositiveIntegerField"
    ELSE IF name = "is_active" THEN "BooleanField"
    ELSE IF name = "text" THEN "TextField"
    ELSE IF name = "editors" THEN "ManyToManyField"
    ELSE None

\* Indexer.__init__, lines 128-147: free-text fields have no value slot, tags
\* get value slots from free_values_start_number on
FieldsOf(declared) ==
    [i \in 1..Len(declared) |->
        [prefix |-> <<>>, path |-> declared[i].path, weight |-> declared[i].weight,
         number |-> 0]]

TagsOf(declared) ==
    [i \in 1..Len(declared) |->
        [prefix |-> declared[i].prefix, path |-> declared[i].path,
         weight |-> declared[i].weight,
         number |-> free_values_start_number + i - 1]]

fields == FieldsOf(DeclaredFields)

tags == TagsOf(DeclaredTags)

\* Field.get_tag
get_tag(field) == upper(field.prefix)

\* a trigger that indexes every record (the default of Indexer)
trigger_ignored(r) == TRUE

\* the trigger of EntryIndexer: obj.is_active
trigger(r) == r.is_active

\* a nullable attribute: Python's None, or the string it holds
Null == [none |-> TRUE, s |-> <<>>]

NotNull(s) == [none |-> FALSE, s |-> s]

\* the run-time kind of the value an attribute holds
KindOf(bit, v) ==
    IF bit = "asset_count" THEN "int"
    ELSE IF bit = "is_active" THEN "bool"
    ELSE IF bit = "rating" THEN "float"
    ELSE IF bit = "created_on" THEN "datetime"
    ELSE IF bit = "author" THEN "model"
    ELSE IF bit = "editors" THEN "manager"
    ELSE IF bit = "tags" THEN (IF v.none THEN "none" ELSE "nullable")
    ELSE "str"

RECURSIVE Walk(_, _)
\* the getattr loop of Field.resolve (lines 67-77): an object is a function
\* from its attribute names, and a name it lacks raises AttributeError
Walk(bits, value) ==
    IF bits = <<>> THEN [exc |-> "none", value |-> value]
    ELSE IF Head(bits) \notin DOMAIN value
    THEN [exc |-> "AttributeError", value |-> value]
    ELSE Walk(Tail(bits), value[Head(bits)])

\* no value: resolve raised
NoValue == [kind |-> "none", v |-> None]

\* lines 79-85 for a value of kind k: values of the raw types are returned as
\* they are; a related manager is joined with ", ", which gives the empty
\* string for no related object and raises TypeError for model instances;
\* None is neither, and None is returned
Returned(k, v) ==
    IF k = "manager"
    THEN IF v = <<>> THEN [exc |-> "none", value |-> [kind |-> "str", v |-> <<>>]]
         ELSE [exc |-> "TypeError", value |-> NoValue]
    ELSE IF k = "none" THEN [exc |-> "none", value |-> NoValue]
    ELSE IF k = "nullable" THEN [exc |-> "none", value |-> [kind |-> "str", v |-> v.s]]
    ELSE [exc |-> "none", value |-> [kind |-> k, v |-> v]]

\* resolve after its getattr loop, which gave w
Resolved(path, w) ==
    IF w.exc # "none" THEN [exc |-> w.exc, value |-> NoValue]
    ELSE Returned(KindOf(path[Len(path)], w.value), w.value)

\* resolve that swallows the AttributeError and goes on with None
resolve_swallowed(path, r) ==
    [Resolved(path, Walk(path, r)) EXCEPT !.exc = "none"]

\* Field.resolve: the value with its kind, or the exception raised
resolve(path, r) == Resolved(path, Walk(path, r))

\* smart_unicode of a resolved value: unicode(str(value)) for numbers,
\* booleans, datetimes and None, the name of a Person (its __unicode__)
smart_unicode(value) ==
    IF value.kind = "int"
    THEN (IF value.v.neg THEN <<45>> ELSE <<>>) \o Magnitude(value.v)
    ELSE IF value.kind = "bool"
    THEN IF value.v THEN <<84, 114, 117, 101>> ELSE <<70, 97, 108, 115, 101>>
    ELSE IF value.kind = "float" THEN StrFloat(value.v)
    ELSE IF value.kind = "datetime" THEN StrDatetime(value.v)
    ELSE IF value.kind = "none" THEN <<78, 111, 110, 101>>
    ELSE IF value.kind = "model" THEN value.v.name
    ELSE value.v

\* convert encodes the value: its content type is one of lines 40-60
Encoded(field_value, declared) ==
    (IF declared = None THEN field_value.kind ELSE declared)
        \in IntegerFields \cup {"BooleanField", "DateTimeField", "datetime",
                                "float", "FloatField"}

\* line 260 and the smart_unicode of line 262: the text that add_value
\* stores, convert's string for the kinds it encodes and otherwise the value
\* it passes through, as text
index_value(field_value, declared) ==
    IF Encoded(field_value, declared) THEN convert(field_value, declared)
    ELSE smart_unicode(field_value)

\* ---- the records of the host (Person and Entry of tests/utils.py) --------
\* the author of the test entries
Person == [name |-> PersonName]

\* an author object without the attribute `name`: getattr raises
\* AttributeError at the second segment of the path author.name
Stranger == [pk |-> 1]

\* the creation time and the rating of the test entries
Created == Datetime(2009, 1, 2, 3, 4, 5, 0)

Rating == FloatVal(FALSE, 4, 50000, 0)

\* the tags column of an entry that has been given tags: "djapian", a word
\* of its text
EntryTags == <<100, 106, 97, 112, 105, 97, 110>>

\* an Entry as setUp creates it, with the attributes the indexer reads: no
\* tags (the column is null) and no editors
Entry(is_active, asset_count, author) ==
    [author |-> author, title |-> EntryTitle, tags |-> Null,
     created_on |-> Created, rating |-> Rating, asset_count |-> asset_count,
     is_active |-> is_active, text |-> EntryText, editors |-> <<>>]

Records == {Entry(is_active, asset_count, Person) :
                is_active \in BOOLEAN, asset_count \in CountChoices}

\* the entries of the host at large: the author may lack a name, and an
\* entry may have been given tags and an editor
Entries ==
    {[Entry(is_active, asset_count, author) EXCEPT !.tags = t, !.editors = editors] :
        is_active \in BOOLEAN, asset_count \in CountChoices,
        author \in {Person, Stranger}, t \in {Null, NotNull(EntryTags)},
        editors \in {<<>>, <<Person>>}}

\* ---- documents ----------------------------------------------------------
_get_meta_values(pk) == <<ToString(pk), ModelName, Descriptor>>

_create_uid(pk) ==
    LET m == _get_meta_values(pk)
    IN "UID-" \o m[1] \o "-" \o m[2] \o "-" \o m[3]

\* a character of a word: a letter or a digit, or a comma, point or semicolon
\* between two digits
InWord(s, i) ==
    \/ s[i] \in (48..57) \cup (65..90) \cup (97..122)
    \/ /\ s[i] \in {44, 46, 59}
       /\ 1 < i
       /\ i < Len(s)
       /\ s[i - 1] \in 48..57
       /\ s[i + 1] \in 48..57

\* the positions of s at which a word begins
WordStarts(s) ==
    {i \in 1..Len(s) : InWord(s, i) /\ (i = 1 \/ ~InWord(s, i - 1))}

\* the word of s that begins at position i
WordAt(s, i) ==
    SubSeq(s, i, CHOOSE j \in i..Len(s) :
                    /\ \A k \in i..j : InWord(s, k)
                    /\ (j = Len(s) \/ ~InWord(s, j + 1)))

\* the words of s that begin at the positions starts, in their order
WordsAt(s, starts) ==
    [n \in 1..Cardinality(starts) |->
        WordAt(s, CHOOSE i \in starts : Cardinality({j \in starts : j < i}) = n - 1)]

\* the words of s in their order
Words(s) == WordsAt(s, WordStarts(s))

\* the postings of the words, in lower case, under the prefix
Postings(words, weight, prefix) ==
    [n \in 1..Len(words) |->
        [prefix |-> Text(prefix), word |-> Text(lower(words[n])), weight |-> weight]]

\* TermGenerator.index_text(text, weight, prefix): the generator splits the
\* text into words and posts each word, in lower case, under the prefix with
\* the weight as its frequency; a text without words posts nothing
index_text(doc, text, weight, prefix) ==
    [doc EXCEPT !.terms = @ \o Postings(Words(text), weight, prefix)]

\* lines 259-262: a prefixed field leaves its sort value in its slot, unless
\* convert returned None
add_value(doc, field, value) ==
    IF field.prefix # <<>>
       /\ (value.kind # "none" \/ Encoded(value, get_field(field.path[1])))
    THEN [doc EXCEPT !.values =
            (field.number :> Text(index_value(value, get_field(field.path[1])))) @@ @]
    ELSE doc

\* lines 264-267: the text is posted under the prefix, and a prefixed text
\* without prefix as well
post(doc, field, text) ==
    IF get_tag(field) # <<>>
    THEN index_text(index_text(doc, text, field.weight, get_tag(field)),
                    text, field.weight, <<>>)
    ELSE index_text(doc, text, field.weight, get_tag(field))

\* lines 259-267 for a field that resolve gave the value
IndexValue(doc, field, value) ==
    post(add_value(doc, field, value), field, smart_unicode(value))

\* one pass of the field loop (lines 252-267) for one field, res being what
\* resolve gave or raised
IndexResolved(doc, field, res) ==
    IF res.exc # "none" THEN doc ELSE IndexValue(doc, field, res.value)

\* one pass of the field loop (lines 252-267) for one field: the
\* AttributeError of resolve skips the field
IndexField(doc, field, r) == IndexResolved(doc, field, resolve(field.path, r))

RECURSIVE IndexFields(_, _, _, _)
\* for field in self.fields + self.tags, from the i-th field on
IndexFields(doc, fs, i, r) ==
    IF i > Len(fs) THEN doc
    ELSE IndexFields(IndexField(doc, fs[i], r), fs, i + 1, r)

\* the fields whose resolve raises another exception than AttributeError,
\* the TypeError of a join, which leaves the field loop
Raising(fs, r) ==
    {i \in 1..Len(fs) : resolve(fs[i].path, r).exc \notin {"none", "AttributeError"}}

\* a document to which nothing has been added
NoDocument == [uid |-> "", values |-> <<>>, terms |-> <<>>]

\* The field loop reads the record and not the document, so what it adds to
\* the document of an entry is what it adds to an empty one: the postings
\* and values of the entries of the host, computed once.
Indexed == [r \in Entries |-> IndexFields(NoDocument, fields \o tags, 1, r)]

\* the identity term and the meta values in slots 1..3 (lines 239-241), and
\* what the field loop has added
Assemble(pk, added) ==
    [uid |-> _create_uid(pk),
     values |-> [s \in {1, 2, 3} |-> _get_meta_values(pk)[s]] @@ added.values,
     terms |-> added.terms]

\* The document update builds for a record (lines 235-267): identity term,
\* meta values in slots 1..3, then the fields and the tags.
BuildDocument(pk, r) ==
    Assemble(pk, IF r \in Entries THEN Indexed[r]
                 ELSE IndexFields(NoDocument, fields \o tags, 1, r))

\* ---- the engine (xapian.WritableDatabase) --------------------------------
\* A database handle is [docs, disk, tx]; every operation returns the handle
\* after the call and the exception it raised ("none" when it returned).
Ret(d, k, t, e) == [docs |-> d, disk |-> k, tx |-> t, exc |-> e]

Positions(ds, term) == {i \in 1..Len(ds) : ds[i].uid = term}

\* add_document: the document always gets a fresh docid
add_document(ds, term, doc) == Append(ds, doc)

\* replace_document(term, doc): the first document indexed by the term is
\* replaced in place, any other one is removed; a new docid when there is none
replace_document(ds, term, doc) ==
    IF Positions(ds, term) = {} THEN Append(ds, doc)
    ELSE LET first == CHOOSE i \in Positions(ds, term) :
                          \A j \in Positions(ds, term) : i <= j
             marked == [i \in 1..Len(ds) |->
                          IF i = first THEN [keep |-> TRUE, d |-> doc]
                          ELSE [keep |-> ds[i].uid # term, d |-> ds[i]]]
             kept == SelectSeq(marked, LAMBDA m : m.keep)
         IN [i \in 1..Len(kept) |-> kept[i].d]

\* delete_document(term): removes every document indexed by the term
delete_document(ds, term) == SelectSeq(ds, LAMBDA d : d.uid # term)

begin_transaction(db, flushed) ==
    IF db.tx # "none" THEN Ret(db.docs, db.disk, db.tx, "InvalidOperationError")
    ELSE IF flushed THEN Ret(db.docs, db.docs, "flushed", "none")
    ELSE Ret(db.docs, db.disk, "unflushed", "none")

\* io_error: the write to disk of a flushed transaction fails
commit_transaction(db, io_error) ==
    IF db.tx = "none" THEN Ret(db.docs, db.disk, db.tx, "InvalidOperationError")
    ELSE IF db.tx = "flushed"
    THEN IF io_error THEN Ret(db.disk, db.disk, "none", "DatabaseError")
         ELSE Ret(db.docs, db.docs, "none", "none")
    ELSE Ret(db.docs, db.disk, "none", "none")

cancel_transaction(db) ==
    IF db.tx = "none" THEN Ret(db.docs, db.disk, db.tx, "InvalidOperationError")
    ELSE Ret(db.disk, db.disk, "none", "none")

flush(db) ==
    IF db.tx # "none" THEN Ret(db.docs, db.disk, db.tx, "InvalidOperationError")
    ELSE Ret(db.docs, db.docs, "none", "none")

\* the handle goes out of scope: an open transaction is cancelled, pending
\* changes are committed otherwise
close(db) ==
    IF db.tx # "none" THEN Ret(db.disk, db.disk, "none", "none")
    ELSE Ret(db.docs, db.docs, "none", "none")

\* A write handle as update holds it: the database and the calls made on it.
\* Call records the engine call `name`, made on db with the result r.
Call(db, name, r) ==
    [docs |-> r.docs, disk |-> r.disk, tx |-> r.tx, exc |-> r.exc,
     calls |-> Append(db.calls, [op |-> name, tx |-> db.tx, exc |-> r.exc])]

\* no engine call is made
Skip(db) ==
    [docs |-> db.docs, disk |-> db.disk, tx |-> db.tx, exc |-> "none",
     calls |-> db.calls]

\* ---- Indexer.delete -----------------------------------------------------
\* engine errors that delete's except clause names
Caught == {"IOError", "RuntimeError", "DocNotFoundError"}

\* delete without the try/except: the engine's error leaves delete
delete_unguarded(db, pk, err) ==
    Call(db, "delete_document",
         IF err # "none" THEN Ret(db.docs, db.disk, db.tx, err)
         ELSE Ret(delete_document(db.docs, _create_uid(pk)), db.disk, db.tx, "none"))

\* delete(obj, database): err is the error the engine raises in
\* delete_document, "none" when it deletes
delete(db, pk, err) ==
    LET r == Call(db, "delete_document",
                  IF err # "none" THEN Ret(db.docs, db.disk, db.tx, err)
                  ELSE Ret(delete_document(db.docs, _create_uid(pk)),
                           db.disk, db.tx, "none"))
    IN IF r.exc \in Caught THEN [r EXCEPT !.exc = "none"] ELSE r

\* ---- Indexer.update: the transaction wrappers (lines 214-224) ------------
\* begin passes its argument under the keyword flush (line 216); the engine's
\* API names the parameter flushed, and a binding that takes only that name
\* raises TypeError before the engine is called
begin(db, a, keyword) ==
    IF a.transaction
    THEN IF keyword = "flush"
         THEN Call(db, "begin_transaction", begin_transaction(db, a.flush))
         ELSE [Skip(db) EXCEPT !.exc = "TypeError"]
    ELSE Skip(db)

commit(db, a, io_error) ==
    IF a.transaction
    THEN Call(db, "commit_transaction", commit_transaction(db, io_error))
    ELSE Skip(db)

cancel(db, a) ==
    IF a.transaction THEN Call(db, "cancel_transaction", cancel_transaction(db))
    ELSE Skip(db)

\* what can go wrong while one record is processed
Faults == {"none", "trigger", "delete", "build", "replace", "callback", "commit"}

\* the faults that can happen to record r under arguments a
Applicable(r, a) ==
    {"none", "trigger"}
    \cup (IF trigger(r) THEN {"build", "replace"} ELSE {"delete"})
    \cup (IF trigger(r) /\ a.after_index THEN {"callback"} ELSE {})
    \cup (IF a.transaction /\ a.flush THEN {"commit"} ELSE {})

\* how control leaves the try block: the handle, the exception raised, whether
\* the block ended in `continue`, whether the completion callback was invoked
Left(d, e, c, k) == [db |-> d, exc |-> e, cont |-> c, called |-> k]

\* after commit() returned the handle d (lines 232-233, 275): `continue`
\* follows only a commit that raised nothing
Committed(d, continues, called) ==
    Left(d, d.exc, continues /\ d.exc = "none", called)

\* after replace_document returned the handle d (lines 272-275)
Replaced(d, a, fault) ==
    IF a.after_index /\ fault = "callback" THEN Left(d, "Exception", FALSE, TRUE)
    ELSE Committed(commit(d, a, fault = "commit"), FALSE, a.after_index)

\* The try block of one iteration (lines 229-275): the handle after it, the
\* exception that left it, whether it ended in `continue`, and whether the
\* completion callback was invoked.
TryBlock(db, pk, r, a, fault) ==
    IF fault = "trigger" THEN Left(db, "Exception", FALSE, FALSE)
    ELSE IF ~trigger(r)
    THEN Committed(commit(delete(db, pk, IF fault = "delete" THEN "IOError"
                                         ELSE "none"),
                          a, fault = "commit"),
                   TRUE, FALSE)
    ELSE IF fault = "build" \/ Raising(fields \o tags, r) # {}
    THEN Left(db, "TypeError", FALSE, FALSE)
    ELSE IF fault = "replace"
    THEN Left(Call(db, "replace_document",
                   Ret(db.docs, db.disk, db.tx, "InvalidArgumentError")),
              "InvalidArgumentError", FALSE, FALSE)
    ELSE Replaced(Call(db, "replace_document",
                       Ret(replace_document(db.docs, _create_uid(pk),
                                            BuildDocument(pk, r)),
                           db.disk, db.tx, "none")),
                  a, fault)

\* the handler's cancel() returned the handle c (line 277)
Cancelled(c, called) ==
    [db |-> c, exc |-> c.exc, cont |-> FALSE, called |-> called, failed |-> TRUE]

\* the except clause (lines 276-277) after the try block was left as t
Handler(t, a) ==
    IF t.exc = "none" THEN [db |-> t.db, exc |-> "none", cont |-> t.cont,
                            called |-> t.called, failed |-> FALSE]
    ELSE Cancelled(cancel(t.db, a), t.called)

\* One iteration body with its except clause (lines 229-277): `exc` is the
\* exception that leaves update, raised by cancel() in the handler.
Iteration(db, pk, r, a, fault) == Handler(TryBlock(db, pk, r, a, fault), a)

\* flush_each (lines 206-211)
flush_each(db, n) ==
    IF (n + 1) % FlushEvery = 0 THEN Call(db, "flush", flush(db))
    ELSE Skip(db)

\* the flush policy after one record (lines 279-286)
FlushStep(db, a, n) ==
    IF a.transaction
    THEN IF ~a.flush THEN [db |-> flush_each(db, n), counter |-> n + 1]
         ELSE [db |-> Skip(db), counter |-> n]
    ELSE IF a.flush THEN [db |-> Call(db, "flush", flush(db)), counter |-> n]
         ELSE [db |-> flush_each(db, n), counter |-> n + 1]

\* ---- the state machine --------------------------------------------------
RECURSIVE Ascending(_, _)
\* the primary keys lo..hi in order: objects.all() of the owned type
Ascending(lo, hi) == IF lo > hi THEN <<>> ELSE <<lo>> \o Ascending(lo + 1, hi)

\* The calls of update in the repository: update_changes passes one changed
\* record and its callback (index.py line 40), the tests pass nothing
\* (tests/utils.py line 117); rebuild is the action Rebuild.
Calls ==
    {[documents |-> Documents(<<pk>>), after_index |-> TRUE] : pk \in PKs}
    \cup {[documents |-> NoDocuments, after_index |-> FALSE]}

Handle == [docs |-> docs, disk |-> disk, tx |-> tx, calls |-> trace]

Init ==
    /\ binding \in {"flushed", "flush"}
    /\ recs \in [PKs -> Records]
    /\ docs = <<>>
    /\ disk = <<>>
    /\ tx = "none"
    /\ pc = "idle"
    /\ args = NoArgs
    /\ queue = <<>>
    /\ counter = 0
    /\ log = <<>>
    /\ trace = <<>>
    /\ out = NoOut
    /\ prior = NoRun
    /\ found = NoFound
    /\ cv = NoCv
    /\ pq = NoPq
    /\ rel = NoRel
    /\ changes = <<>>
    /\ poll = NoPoll

\* the host application saves a changed record
Save(pk, r) ==
    /\ pc = "idle"
    /\ r # recs[pk]
    /\ recs' = [recs EXCEPT ![pk] = r]
    /\ log' = <<>>
    /\ trace' = <<>>
    /\ out' = NoOut
    /\ prior' = NoRun
    /\ found' = NoFound
    /\ UNCHANGED <<binding, docs, disk, tx, pc, args, queue, counter, cv, pq, rel,
                   changes, poll>>

\* Indexer.delete(pk) as a public call: opens a write handle, deletes, and
\* drops the handle
Delete(pk, err) ==
    /\ pc = "idle"
    /\ LET d == delete(Handle, pk, err)
           c == close(d)
       IN /\ docs' = c.docs
          /\ disk' = c.disk
          /\ tx' = c.tx
          /\ out' = [op |-> "delete", pk |-> pk, err |-> err, exc |-> d.exc,
                      before |-> docs]
    /\ log' = <<>>
    /\ trace' = <<>>
    /\ prior' = NoRun
    /\ found' = NoFound
    /\ UNCHANGED <<binding, recs, pc, args, queue, counter, cv, pq, rel, changes, poll>>

\* Indexer.clear: the index is emptied
Clear ==
    /\ pc = "idle"
    /\ docs' = <<>>
    /\ disk' = <<>>
    /\ out' = [op |-> "clear", pk |-> 0, err |-> "none", exc |-> "none",
                before |-> docs]
    /\ log' = <<>>
    /\ trace' = <<>>
    /\ prior' = NoRun
    /\ found' = NoFound
    /\ UNCHANGED <<binding, recs, tx, pc, args, queue, counter, cv, pq, rel, changes, poll>>

\* update up to the loop (lines 196-224)
Enter(a, start) ==
    /\ pc' = "loop"
    /\ args' = a
    /\ queue' = IF a.documents.none THEN Ascending(1, MaxPk) ELSE a.documents.list
    /\ counter' = 0
    /\ log' = <<>>
    /\ trace' = <<>>
    /\ out' = NoOut
    /\ prior' = IF prior.args = a /\ docs = start THEN prior ELSE NoRun
    /\ found' = NoFound

\* Indexer.update(documents, after_index, transaction, flush) is called
UpdateStart(documents, after_index, transaction, flush_) ==
    /\ pc = "idle"
    /\ Enter([documents |-> documents, after_index |-> after_index,
              transaction |-> transaction, flush |-> flush_, caller |-> "update"],
             docs)
    /\ UNCHANGED <<binding, recs, docs, disk, tx, cv, pq, rel, changes, poll>>

\* rebuild of the index command: clear(), then update(None, after_index, ...)
Rebuild(transaction, flush_) ==
    /\ pc = "idle"
    /\ docs' = <<>>
    /\ disk' = <<>>
    /\ Enter([documents |-> NoDocuments, after_index |-> TRUE,
              transaction |-> transaction, flush |-> flush_, caller |-> "rebuild"],
             <<>>)
    /\ UNCHANGED <<binding, recs, tx, cv, pq, rel, changes, poll>>

\* the course of an update: the records it came to, in order, and what went
\* wrong at each
Course(lg) == [i \in 1..Len(lg) |-> [pk |-> lg[i].pk, fault |-> lg[i].fault]]

\* update returns or raises: the handle is dropped
Leave(db, exc, lg) ==
    LET c == close(db)
    IN /\ docs' = c.docs
       /\ disk' = c.disk
       /\ tx' = c.tx
       /\ pc' = "idle"
       /\ args' = NoArgs
       /\ queue' = <<>>
       /\ counter' = 0
       /\ log' = lg
       /\ trace' = db.calls
       /\ out' = [op |-> "update", pk |-> 0, err |-> "none", exc |-> exc,
                   before |-> <<>>]
       /\ prior' = [args |-> args, log |-> lg, docs |-> c.docs, exc |-> exc,
                     again |-> (prior # NoRun /\ Course(prior.log) = Course(lg)),
                     was |-> IF prior # NoRun /\ Course(prior.log) = Course(lg)
                             THEN prior.docs ELSE <<>>,
                     first |-> IF prior # NoRun /\ Course(prior.log) = Course(lg)
                               THEN prior.log ELSE <<>>]

\* the loop takes the next record and calls begin() (lines 227-228)
Begin ==
    /\ pc = "loop"
    /\ queue # <<>>
    /\ LET d == begin([Handle EXCEPT !.calls =
                           Append(@, [op |-> "record", tx |-> tx, exc |-> "none"])],
                      args, binding)
       IN IF d.exc # "none"
          THEN Leave(d, d.exc, log)
          ELSE /\ docs' = d.docs
               /\ disk' = d.disk
               /\ tx' = d.tx
               /\ trace' = d.calls
               /\ pc' = "body"
               /\ UNCHANGED <<args, queue, counter, log, out, prior>>
    /\ UNCHANGED <<binding, recs, found, cv, pq, rel, changes, poll>>

\* the try/except of one record (lines 229-277)
Body(fault) ==
    /\ pc = "body"
    /\ fault \in Applicable(recs[Head(queue)], args)
    /\ \E pk \in {Head(queue)} :
       \E it \in {Iteration(Handle, pk, recs[pk], args, fault)} :
       \E lg \in {Append(log, [pk |-> pk, fault |-> fault, called |-> it.called,
                               failed |-> it.failed,
                               had |-> Positions(docs, _create_uid(pk)) # {}])} :
          IF it.exc # "none"
          THEN Leave(it.db, it.exc, lg)
          ELSE /\ docs' = it.db.docs
               /\ disk' = it.db.disk
               /\ tx' = it.db.tx
               /\ log' = lg
               /\ trace' = it.db.calls
               /\ pc' = IF it.cont THEN "loop" ELSE "flush"
               /\ queue' = IF it.cont THEN Tail(queue) ELSE queue
               /\ UNCHANGED <<args, counter, out, prior>>
    /\ UNCHANGED <<binding, recs, found, cv, pq, rel, changes, poll>>

\* the flush policy after the record (lines 279-286)
FlushPolicy ==
    /\ pc = "flush"
    /\ LET f == FlushStep(Handle, args, counter)
       IN IF f.db.exc # "none"
          THEN Leave(f.db, f.db.exc, log)
          ELSE /\ docs' = f.db.docs
               /\ disk' = f.db.disk
               /\ tx' = f.db.tx
               /\ trace' = f.db.calls
               /\ counter' = f.counter
               /\ pc' = "loop"
               /\ queue' = Tail(queue)
               /\ UNCHANGED <<args, log, out, prior>>
    /\ UNCHANGED <<binding, recs, found, cv, pq, rel, changes, poll>>

\* the final flush and the return (line 288)
FinalFlush ==
    /\ pc = "loop"
    /\ queue = <<>>
    /\ LET d == Call(Handle, "flush", flush(Handle))
       IN Leave(d, d.exc, log)
    /\ UNCHANGED <<binding, recs, found, cv, pq, rel, changes, poll>>

Next ==
    \/ \E pk \in PKs, r \in Records : Save(pk, r)
    \/ \E pk \in PKs, err \in {"none"} \cup Caught : Delete(pk, err)
    \/ Clear
    \/ \E c \in Calls, t, f \in BOOLEAN :
          UpdateStart(c.documents, c.after_index, t, f)
    \/ \E t, f \in BOOLEAN : Rebuild(t, f)
    \/ Begin
    \/ \E fault \in Faults : Body(fault)
    \/ FlushPolicy
    \/ FinalFlush

Spec == Init /\ [][Next]_vars

\* C1: the index never holds two documents with the same UID term
AtMostOnePerIdentity ==
    \A pk \in PKs :
        /\ Cardinality(Positions(docs, _create_uid(pk))) <= 1
        /\ Cardinality(Positions(disk, _create_uid(pk))) <= 1

\* Indexer.document_count: the documents a reader of the index sees
document_count == Len(disk)

\* the value slots of every document, by identity
Slots(ds) == {<<ds[i].uid, ds[i].values>> : i \in 1..Len(ds)}

\* a record of the running update was processed in this step: what went wrong
StepFault ==
    IF Len(log') = Len(log) + 1 THEN log'[Len(log')].fault ELSE "no step"

\* C1: an update that finds the record's document in the index has replaced it
ReplacedInPlace ==
    /\ pc = "flush"
    /\ log # <<>>
    /\ log[Len(log)].had
    /\ ~log[Len(log)].failed
    /\ Cardinality(Positions(docs, _create_uid(Head(queue)))) = 1

\* C2: an update that repeats the update before it (same arguments, same
\* records, the same records failing at the same places), whatever the index
\* held before the first of the two, leaves the document count and every
\* document's value slots as the first run left them
RepeatedUpdateIdempotent ==
    prior.again =>
        /\ Len(prior.docs) = Len(prior.was)
        /\ Slots(prior.docs) = Slots(prior.was)

\* C2: a second update that flushes after every record, after a first one
\* that created a document in an index without it and removed the document
\* of another record
RepeatedUpdateDone ==
    /\ pc = "idle"
    /\ prior.again
    /\ prior.args.flush
    /\ prior.exc = "none"
    /\ \E i \in 1..Len(prior.first) :
          /\ ~prior.first[i].had
          /\ ~prior.first[i].failed
          /\ prior.log[i].had
    /\ \E i \in 1..Len(prior.first) :
          /\ prior.first[i].had
          /\ ~prior.first[i].failed
          /\ ~prior.log[i].had
    /\ Len(prior.docs) > 0
    /\ document_count = Len(prior.docs)

\* C3 as stated: whenever update comes to a record that has a document and
\* whose trigger is false, it goes on to process the record, and processing
\* it removes exactly that document and leaves the rest
TriggerFalseRemoves ==
    [][/\ (/\ pc = "loop"
            /\ queue # <<>>
            /\ ~recs[Head(queue)].is_active
            /\ Positions(docs, _create_uid(Head(queue))) # {})
           => pc' = "body"
       /\ (/\ pc = "body"
            /\ ~recs[Head(queue)].is_active
            /\ StepFault # "trigger"
            /\ Positions(docs, _create_uid(Head(queue))) # {})
           => (/\ Len(docs') = Len(docs) - 1
               /\ docs' = SelectSeq(docs, LAMBDA d :
                                        d.uid # _create_uid(Head(queue))))]_vars

\* C4: after clear() and an update over all records (as rebuild does, or as
\* two calls: no record then has a document when update reaches it) that
\* has returned and in which no record failed, the index holds one document
\* for every record whose trigger is true and none for the others
RebuildIndexesTriggerTrue ==
    (/\ pc = "idle"
     /\ prior.args.caller # "none"
     /\ prior.args.documents.none
     /\ prior.exc = "none"
     /\ \A i \in 1..Len(prior.log) : ~prior.log[i].failed /\ ~prior.log[i].had)
    => \A pk \in PKs :
          Cardinality(Positions(disk, _create_uid(pk)))
              = IF recs[pk].is_active THEN 1 ELSE 0

\* C4: a rebuild without failures over active and inactive records
RebuildDone ==
    /\ pc = "idle"
    /\ prior.args.caller = "rebuild"
    /\ prior.exc = "none"
    /\ \A i \in 1..Len(prior.log) : ~prior.log[i].failed
    /\ \E pk \in PKs : ~recs[pk].is_active
    /\ \E pk \in PKs : recs[pk].is_active
    /\ document_count = Cardinality({pk \in PKs : recs[pk].is_active})

\* C5 as stated: no exception of one record's processing leaves update, and
\* update processes every record of its batch
FailureIsolation ==
    out.op = "update" =>
        /\ out.exc = "none"
        /\ Len(prior.log) = IF prior.args.documents.none THEN MaxPk
                            ELSE Len(prior.args.documents.list)

\* C6 as stated: with transactions on, a record whose processing fails leaves
\* the index as it was when the record's transaction began, so that nothing
\* done for earlier records of the batch is lost
PerRecordRollback ==
    [][(/\ pc = "body"
        /\ args.transaction
        /\ Len(log') = Len(log) + 1
        /\ log'[Len(log')].failed)
       => docs' = docs]_vars

\* C7: delete of an identity with no document returns normally and leaves the
\* index as it was, also when the engine raises an error delete catches
DeleteAbsentIsNoOp ==
    (out.op = "delete" /\ Positions(out.before, _create_uid(out.pk)) = {})
    => /\ out.exc = "none"
       /\ docs = out.before
       /\ disk = out.before
       /\ document_count = Len(out.before)

\* C7: delete of an absent identity, during which the engine raised an error,
\* on an index that holds other documents
DeleteAbsentDone ==
    /\ out.op = "delete"
    /\ Positions(out.before, _create_uid(out.pk)) = {}
    /\ out.err = "DocNotFoundError"
    /\ Len(out.before) > 0

\* ---- the read path: Indexer._do_search ----------------------------------
\* tag_index(name): the value slot of the tag with that prefix, None otherwise
tag_index(name) ==
    IF \E i \in 1..Len(tags) : tags[i].prefix = name
    THEN tags[CHOOSE i \in 1..Len(tags) :
                 /\ tags[i].prefix = name
                 /\ \A j \in 1..Len(tags) : tags[j].prefix = name => i <= j].number
    ELSE NoSlot

\* document.get_value(slot): the empty string when the slot is not set
get_value(d, slot) == IF slot \in DOMAIN d.values THEN d.values[slot] ELSE ""

\* Field.extract(document): the value in the field's slot; None for a field
\* without a slot number (a free-text field, whose number is None and is 0
\* here) and for the number 0
extract(field, d) ==
    IF field.number # 0 THEN get_value(d, field.number) ELSE None

\* d comes before e in a match set sorted by the value in slot, in the given
\* direction; no order between equal values
ValueBefore(d, e, slot, ascending) ==
    IF ascending THEN StrLess(Codes(get_value(d, slot)), Codes(get_value(e, slot)))
    ELSE StrLess(Codes(get_value(e, slot)), Codes(get_value(d, slot)))

RECURSIVE Mass(_, _)
\* the sum of the weights of the postings ts, taken weight by weight over
\* the set W of their weights
Mass(ts, W) ==
    IF W = {} THEN 0
    ELSE LET w == CHOOSE x \in W : TRUE
         IN w * Cardinality({k \in 1..Len(ts) : ts[k].weight = w})
            + Mass(ts, W \ {w})

\* the sum of the weights of the postings ts
Weights(ts) == Mass(ts, {ts[k].weight : k \in 1..Len(ts)})

\* the within-document frequency of the term without prefix in d: what the
\* index_text calls of the document have added up for it
get_wdf(d, term) ==
    Weights(SelectSeq(d.terms, LAMBDA t : t.prefix = "" /\ t.word = term))

\* the length of d: the frequencies of all its terms, the identity term
\* (added by add_term with frequency 1) among them
get_doclength(d) == Weights(d.terms) + 1

RECURSIVE Lengths(_)
\* the lengths of the documents ds together
Lengths(ds) == IF ds = <<>> THEN 0 ELSE get_doclength(Head(ds)) + Lengths(Tail(ds))

\* The part of the denominator of a document's weight that comes from its
\* length, under the engine's default scheme (BM25Weight with k1 = 1,
\* b = 0.5 and a least normalised length of 0.5): (1 - b) + b * normlen with
\* normlen the length over the average length of ds, not below 0.5; here
\* times four times the lengths of ds together.
Damping(ds, i) ==
    2 * Lengths(ds)
    + (IF 2 * Len(ds) * get_doclength(ds[i]) > Lengths(ds)
       THEN 2 * Len(ds) * get_doclength(ds[i]) ELSE Lengths(ds))

\* the document i of ds weighs more than j for the query of the one term:
\* wdf / (damping + wdf) is larger, so the weight rises with the term's
\* frequency in the document and falls with the document's length; documents
\* of equal length weigh by frequency alone
Heavier(ds, i, j, term) ==
    get_wdf(ds[i], term) * Damping(ds, j) > get_wdf(ds[j], term) * Damping(ds, i)

\* Enquire.get_mset under set_sort_by_relevance: by weight, then by docid
RelevanceBefore(ds, i, j, term) ==
    \/ Heavier(ds, i, j, term)
    \/ (~Heavier(ds, j, i, term) /\ i < j)

\* Enquire.get_mset under set_sort_by_value_then_relevance(slot, ascending)
ValueThenRelevanceBefore(ds, i, j, term, slot, ascending) ==
    \/ ValueBefore(ds[i], ds[j], slot, ascending)
    \/ (/\ ~ValueBefore(ds[j], ds[i], slot, ascending)
        /\ RelevanceBefore(ds, i, j, term))

\* Enquire.get_mset under set_sort_by_relevance_then_value(slot, ascending)
RelevanceThenValueBefore(ds, i, j, term, slot, ascending) ==
    \/ Heavier(ds, i, j, term)
    \/ (/\ ~Heavier(ds, j, i, term)
        /\ \/ ValueBefore(ds[i], ds[j], slot, ascending)
           \/ (~ValueBefore(ds[j], ds[i], slot, ascending) /\ i < j))

\* the match set: the docids of the documents of ds that hold the term, in
\* the order the sort setting gives
MSet(ds, term, by, slot, ascending) ==
    LET matches == {i \in 1..Len(ds) : get_wdf(ds[i], term) > 0}
        before(i, j) ==
            IF by = "relevance" THEN RelevanceBefore(ds, i, j, term)
            ELSE RelevanceThenValueBefore(ds, i, j, term, slot, ascending)
        rank(i) == 1 + Cardinality({j \in matches : before(j, i)})
    IN [k \in 1..Cardinality(matches) |-> CHOOSE i \in matches : rank(i) = k]

\* _do_search(query, offset, limit, order_by, ...) over the index ds, for a
\* query of one word, which the parser turns into the term of the word in
\* lower case.
\* The handler of lines 405-407 that raises ValueError guards tag_index,
\* which returns None for an unknown name and raises nothing, so no path
\* of the function reaches it.
\* binding_rejects: the engine's binding raises TypeError when it is handed
\* None for a value slot (otherwise it takes it as a slot no document sets).
_do_search(ds, query, order_by, binding_rejects) ==
    LET res(e, by, v, asc, p, m) ==
            [query |-> query, order_by |-> order_by, exc |-> e, by |-> by,
             valueno |-> v, ascending |-> asc, parsed |-> p, mset |-> m]
    IN IF order_by.none \/ order_by.s = RELEVANCE
       THEN res("none", "relevance", NoSlot, TRUE, TRUE,
                MSet(ds, Text(lower(query)), "relevance", NoSlot, TRUE))
       ELSE LET ascending == ~startswith(order_by.s, <<45>>)
                name == IF order_by.s[1] \in {43, 45}
                        THEN SliceFrom(order_by.s, 1) ELSE order_by.s
                valueno == tag_index(name)
            IN IF valueno = NoSlot /\ binding_rejects
               THEN res("TypeError", "none", valueno, ascending, FALSE, <<>>)
               ELSE res("none", "relevance_then_value", valueno, ascending, TRUE,
                        MSet(ds, Text(lower(query)), "relevance_then_value",
                             valueno, ascending))

\* "text", the free-text field, which is no tag of the indexer
NameText == <<116, 101, 120, 116>>

\* the sort specifications searches are made with: None, 'RELEVANCE', and
\* the tag "count", the tag "rating" or "text" with no sign, '+' or '-'
OrderBys ==
    {NoOrder, Order(RELEVANCE)}
    \cup {Order(sign \o name) :
             sign \in {<<>>, <<43>>, <<45>>},
             name \in {NameCount, NameRating, NameText}}

RECURSIVE IndexOf(_, _)
\* the index that holds the documents of the records q, in that docid order
IndexOf(q, rs) ==
    IF q = <<>> THEN <<>>
    ELSE <<BuildDocument(Head(q), rs[Head(q)])>> \o IndexOf(Tail(q), rs)

\* the orders in which the documents of some of the records can lie in the index
DocidOrders ==
    {q \in UNION {[1..n -> PKs] : n \in 0..MaxPk} :
        \A i, j \in 1..Len(q) : i # j => q[i] # q[j]}

\* the records of the searches: entries with and without tags
Tagged == {[r EXCEPT !.tags = t] : r \in Records, t \in {Null, NotNull(EntryTags)}}

\* an index built by updates over some record state, then read: it holds
\* documents of records whose trigger is true
InitSearch ==
    /\ binding = "flushed"
    /\ recs \in [PKs -> Tagged]
    /\ \E q \in DocidOrders :
          /\ \A i \in 1..Len(q) : trigger(recs[q[i]])
          /\ docs = IndexOf(q, recs)
    /\ disk = docs
    /\ tx = "none"
    /\ pc = "idle"
    /\ args = NoArgs
    /\ queue = <<>>
    /\ counter = 0
    /\ log = <<>>
    /\ trace = <<>>
    /\ out = NoOut
    /\ prior = NoRun
    /\ found = NoFound
    /\ cv = NoCv
    /\ pq = NoPq
    /\ rel = NoRel
    /\ changes = <<>>
    /\ poll = NoPoll

\* a search for one word: "djapian", which the text of every entry holds
\* and the tags of some, or "Test", the title of every entry
Search(query, order_by, binding_rejects) ==
    /\ pc = "idle"
    /\ found' = _do_search(disk, query, order_by, binding_rejects)
    /\ UNCHANGED <<binding, recs, docs, disk, tx, pc, args, queue, counter, log, trace, out, prior,
                   cv, pq, rel, changes, poll>>

NextSearch ==
    \E query \in {EntryText, EntryTitle}, o \in OrderBys, b \in BOOLEAN :
        Search(query, o, b)

SpecSearch == InitSearch /\ [][NextSearch]_vars

\* the sort specification names a tag the indexer does not have
UnknownSortField(o) ==
    /\ ~o.none
    /\ o.s # RELEVANCE
    /\ tag_index(IF o.s[1] \in {43, 45} THEN SliceFrom(o.s, 1) ELSE o.s) = NoSlot

\* C8 as stated: a search sorted by an unknown field fails with ValueError
\* before the query is parsed, and returns no match set
UnknownSortFieldFails ==
    (found # NoFound /\ UnknownSortField(found.order_by))
    => /\ found.exc = "ValueError"
       /\ ~found.parsed
       /\ found.mset = <<>>

\* C9 as stated: the matches of a search sorted by a tag are ordered by the
\* tag's value slot first, ascending without sign or with '+', descending
\* with '-', and by relevance only among equal slot values
SortedByValueFirst ==
    (found # NoFound /\ found.exc = "none" /\ found.by # "relevance"
        /\ found.valueno # NoSlot)
    => \A k \in 1..(Len(found.mset) - 1) :
          ValueThenRelevanceBefore(disk, found.mset[k], found.mset[k + 1],
                                   Text(lower(found.query)), found.valueno,
                                   found.order_by.s[1] # 45)

\* ---- Field.convert on its own --------------------------------------------
\* integers around the digit-count and width boundaries: 0, 1, 9, 10, 99, 100,
\* 999999, 10^6, 10^6 + 1, 10^11 - 1, 10^11, 10^12 - 1, 10^12, -1, -10
IntSamples ==
    {IntVal(n) : n \in {0, 1, 9, 10, 99, 100, 999999}}
    \cup {[neg |-> FALSE, hi |-> 1, lo |-> 0], [neg |-> FALSE, hi |-> 1, lo |-> 1],
          [neg |-> FALSE, hi |-> 99999, lo |-> 999999],
          [neg |-> FALSE, hi |-> 100000, lo |-> 0],
          [neg |-> FALSE, hi |-> 999999, lo |-> 999999],
          [neg |-> FALSE, hi |-> 10^6, lo |-> 0],
          [neg |-> TRUE, hi |-> 0, lo |-> 1], [neg |-> TRUE, hi |-> 0, lo |-> 10]}

InitConvert ==
    /\ binding = "flushed"
    /\ recs = [pk \in PKs |-> Entry(TRUE, IntVal(9), Person)]
    /\ docs = <<>>
    /\ disk = <<>>
    /\ tx = "none"
    /\ pc = "idle"
    /\ args = NoArgs
    /\ queue = <<>>
    /\ counter = 0
    /\ log = <<>>
    /\ trace = <<>>
    /\ out = NoOut
    /\ prior = NoRun
    /\ found = NoFound
    /\ cv = NoCv
    /\ pq = NoPq
    /\ rel = NoRel
    /\ changes = <<>>
    /\ poll = NoPoll

\* two integer values are encoded for a tag whose path names a declared
\* integer field (declared = "IntegerField") or no field of the model (None)
ConvertInts(a, b, declared) ==
    /\ cv' = [kind |-> "int", a |-> a, b |-> b, declared |-> declared,
              ea |-> convert([kind |-> "int", v |-> a], declared),
              eb |-> convert([kind |-> "int", v |-> b], declared)]
    /\ UNCHANGED <<binding, recs, docs, disk, tx, pc, args, queue, counter, log, trace, out,
                   prior, found, pq, rel, changes, poll>>

\* floats around the digit-count boundaries of the integer part and ten
\* places apart: 0.0, 0.0000000001, 0.0000000002, 0.5, the ratings of the
\* test entries 3.6, 4.5 and 4.65, 9.5, 10.0, 10.5, 99.9999999999, 100.0,
\* -1.5, -2.5
FloatSamples ==
    {FloatVal(FALSE, 0, 0, 0), FloatVal(FALSE, 0, 0, 1), FloatVal(FALSE, 0, 0, 2),
     FloatVal(FALSE, 0, 50000, 0), FloatVal(FALSE, 3, 60000, 0),
     FloatVal(FALSE, 4, 50000, 0), FloatVal(FALSE, 4, 65000, 0),
     FloatVal(FALSE, 9, 50000, 0), FloatVal(FALSE, 10, 0, 0),
     FloatVal(FALSE, 10, 50000, 0), FloatVal(FALSE, 99, 99999, 99999),
     FloatVal(FALSE, 100, 0, 0), FloatVal(TRUE, 1, 50000, 0),
     FloatVal(TRUE, 2, 50000, 0)}

\* two float values are encoded for a tag whose path names a declared float
\* field (declared = "FloatField", as rating) or no field of the model (None)
ConvertFloats(a, b, declared) ==
    /\ cv' = [kind |-> "float", a |-> a, b |-> b, declared |-> declared,
              ea |-> convert([kind |-> "float", v |-> a], declared),
              eb |-> convert([kind |-> "float", v |-> b], declared)]
    /\ UNCHANGED <<binding, recs, docs, disk, tx, pc, args, queue, counter, log, trace, out,
                   prior, found, pq, rel, changes, poll>>

\* two boolean values are encoded for a tag whose path names a declared
\* boolean field (declared = "BooleanField", as is_active), no field of the
\* model (None: a computed accessor), or starts at a declared relation
\* ("ForeignKey": a nested accessor such as author.is_staff)
ConvertBools(a, b, declared) ==
    /\ cv' = [kind |-> "bool", a |-> a, b |-> b, declared |-> declared,
              ea |-> index_value([kind |-> "bool", v |-> a], declared),
              eb |-> index_value([kind |-> "bool", v |-> b], declared)]
    /\ UNCHANGED <<binding, recs, docs, disk, tx, pc, args, queue, counter, log, trace, out,
                   prior, found, pq, rel, changes, poll>>

NextConvert ==
    \/ \E a, b \in IntSamples, declared \in {"IntegerField", None} :
          ConvertInts(a, b, declared)
    \/ \E a, b \in FloatSamples, declared \in {"FloatField", None} :
          ConvertFloats(a, b, declared)
    \/ \E a, b \in BOOLEAN, declared \in {"BooleanField", None, "ForeignKey"} :
          ConvertBools(a, b, declared)

SpecConvert == InitConvert /\ [][NextConvert]_vars

\* 0 <= v <= 10^12 - 1
InSortRange(v) == ~v.neg /\ v.hi < 10^6

\* C10: for integers 0 <= i1 < i2 <= 10^12 - 1 both encoded values are 12
\* characters long and the one of i1 is lexicographically smaller
IntegerEncodingPreservesOrder ==
    (cv.kind = "int" /\ InSortRange(cv.a) /\ InSortRange(cv.b)
        /\ IntLess(cv.a, cv.b))
    => /\ Len(cv.ea) = IntWidth
       /\ Len(cv.eb) = IntWidth
       /\ StrLess(cv.ea, cv.eb)

\* C10: 9 and 10^12 - 1, the shortest and the longest encodable digit strings
\* that unpadded would compare the other way round
IntegerEncodingCompared ==
    /\ cv.kind = "int"
    /\ cv.a = IntVal(9)
    /\ cv.b = [neg |-> FALSE, hi |-> 999999, lo |-> 999999]
    /\ cv.eb = <<57, 57, 57, 57, 57, 57, 57, 57, 57, 57, 57, 57>>
    /\ StrLess(cv.ea, cv.eb)

\* numeric order of two floats
FloatLess(x, y) ==
    LET magLess(p, q) ==
            \/ p.whole < q.whole
            \/ (p.whole = q.whole /\ p.fhi < q.fhi)
            \/ (p.whole = q.whole /\ p.fhi = q.fhi /\ p.flo < q.flo)
        zero(v) == v.whole = 0 /\ v.fhi = 0 /\ v.flo = 0
    IN IF x.neg /\ ~zero(x)
       THEN IF y.neg /\ ~zero(y) THEN magLess(y, x) ELSE TRUE
       ELSE IF y.neg /\ ~zero(y) THEN FALSE ELSE magLess(x, y)

\* C11 as stated: for floats f1 < f2 that differ by at least 10^-10, the
\* encoded value of f1 is lexicographically smaller than that of f2, also
\* when their integer parts have different numbers of digits
FloatEncodingPreservesOrder ==
    (cv.kind = "float" /\ FloatLess(cv.a, cv.b)) => StrLess(cv.ea, cv.eb)

\* ---- the read path: Indexer._parse_query --------------------------------
\* "Author", "writer", "alex" and "bob"
NameAuthorCap == <<65, 117, 116, 104, 111, 114>>
NameWriter == <<119, 114, 105, 116, 101, 114>>
WordAlex == <<97, 108, 101, 120>>
WordBob == <<98, 111, 98>>

\* Indexer classes as declared: the tags and aliases of the modelled
\* EntryIndexer; a tag with two aliases; a tag whose name has a capital; an
\* alias that is also the name of another tag; a tag whose name is also an
\* alias of another tag; an alias for a tag that is not declared
Declarations ==
    {[tags |-> DeclaredTags, aliases |-> DeclaredAliases],
     [tags |-> DeclaredTags,
      aliases |-> << [tag |-> NameAuthor, names |-> <<NameUser, NameWriter>>] >>],
     [tags |-> << [prefix |-> NameAuthorCap, path |-> <<"author", "name">>,
                   weight |-> DEFAULT_WEIGHT] >>,
      aliases |-> << [tag |-> NameAuthorCap, names |-> <<NameUser>>] >>],
     [tags |-> << [prefix |-> NameAuthor, path |-> <<"author", "name">>,
                   weight |-> DEFAULT_WEIGHT],
                  [prefix |-> NameUser, path |-> <<"text">>,
                   weight |-> DEFAULT_WEIGHT] >>,
      aliases |-> << [tag |-> NameAuthor, names |-> <<NameUser>>] >>],
     [tags |-> << [prefix |-> NameAuthor, path |-> <<"author", "name">>,
                   weight |-> DEFAULT_WEIGHT],
                  [prefix |-> NameTitle, path |-> <<"title">>,
                   weight |-> DEFAULT_WEIGHT] >>,
      aliases |-> << [tag |-> NameAuthor, names |-> <<NameUser>>],
                     [tag |-> NameTitle, names |-> <<NameAuthor>>] >>],
     [tags |-> << [prefix |-> NameCount, path |-> <<"asset_count">>,
                   weight |-> DEFAULT_WEIGHT] >>,
      aliases |-> DeclaredAliases]}

\* has_tag(name) over the tags tgs (lines 164-172)
has_tag(tgs, name) == \E i \in 1..Len(tgs) : tgs[i].prefix = name

\* Indexer.__init__: the tags with their slots and the aliases, or the
\* ValueError for an alias of a tag that does not exist (lines 137-155)
Construct(decl) ==
    LET tgs == TagsOf(decl.tags)
    IN IF \E k \in 1..Len(decl.aliases) : ~has_tag(tgs, decl.aliases[k].tag)
       THEN [exc |-> "ValueError", tags |-> tgs, aliases |-> <<>>]
       ELSE [exc |-> "none", tags |-> tgs, aliases |-> decl.aliases]

\* a parser that registers every alias under a prefix of its own
PrefixTableOwn(idx) ==
    {<<lower(idx.tags[i].prefix), get_tag(idx.tags[i])>> : i \in 1..Len(idx.tags)}
    \cup UNION {{<<idx.aliases[k].names[a], upper(idx.aliases[k].names[a])>> :
                    a \in 1..Len(idx.aliases[k].names)} :
                 k \in 1..Len(idx.aliases)}

\* the add_prefix calls of _parse_query (lines 452-456) as the parser's table
\* of (field name, term prefix); a field name registered more than once
\* stands for every one of its prefixes
PrefixTable(idx) ==
    {<<lower(idx.tags[i].prefix), get_tag(idx.tags[i])>> : i \in 1..Len(idx.tags)}
    \cup UNION {{<<idx.aliases[k].names[a], upper(idx.aliases[k].tag)>> :
                    a \in 1..Len(idx.aliases[k].names)} :
                 k \in {j \in 1..Len(idx.aliases) :
                           has_tag(idx.tags, idx.aliases[j].tag)}}

\* QueryParser.parse_query of the query 'field:word': the word under every
\* prefix of a registered field name, joined by OR; field and word as two
\* plain words, joined by the default operator AND, otherwise
parse_query(table, field, word) ==
    LET prefixes == {e[2] : e \in {e \in table : e[1] = field}}
    IN IF prefixes = {}
       THEN [op |-> "AND", terms |-> {[prefix |-> <<>>, word |-> lower(field)],
                                      [prefix |-> <<>>, word |-> lower(word)]}]
       ELSE [op |-> "OR", terms |-> {[prefix |-> p, word |-> lower(word)] :
                                        p \in prefixes}]

\* The obj argument of _get_stem_language is given by its truth value and by
\* what resolving the accessor on it gives: a language, or the AttributeError
\* (which an indexer without accessor raises for every object).  NoObj is the
\* argument when it is left out, None.
Obj(truth, exc, language) == [truth |-> truth, exc |-> exc, language |-> language]

NoObj == Obj(FALSE, "AttributeError", "none")

\* settings without DJAPIAN_STEMMING_LANG
Unset == "unset"

\* _get_stem_language(obj) (lines 428-443): under "multi" an object that is
\* true gives the language its accessor resolves to, and "multi" itself when
\* resolve raises AttributeError; an object that is false gives "none"
_get_stem_language(setting, obj) ==
    LET language == IF setting = Unset THEN "none" ELSE setting
    IN IF language = "multi"
       THEN IF obj.truth
            THEN IF obj.exc = "AttributeError" THEN language ELSE obj.language
            ELSE "none"
       ELSE language

\* the stemmer _parse_query gives the parser (lines 461-466): the language of
\* xapian.Stem, None when set_stemmer is not called
Stemmer(stemming_lang, setting) ==
    LET lang == IF stemming_lang \in {None, "none"}
                THEN _get_stem_language(setting, NoObj)
                ELSE stemming_lang
    IN IF lang # "" THEN lang ELSE None

\* _parse_query for the query 'field:word'
_parse_query(idx, field, word, stemming_lang, setting) ==
    [parsed |-> parse_query(PrefixTable(idx), field, word),
     stemmer |-> Stemmer(stemming_lang, setting)]

\* the documents of ds that hold the posting t
HasTerm(d, t) ==
    \E k \in 1..Len(d.terms) :
        d.terms[k].prefix = Text(t.prefix) /\ d.terms[k].word = Text(t.word)

\* the documents a parsed query matches
Matches(ds, parsed) ==
    {i \in 1..Len(ds) :
        IF parsed.op = "OR" THEN \E t \in parsed.terms : HasTerm(ds[i], t)
        ELSE \A t \in parsed.terms : HasTerm(ds[i], t)}

\* an index that holds the document of every record
InitParse ==
    /\ binding = "flushed"
    /\ recs = [pk \in PKs |-> Entry(TRUE, IntVal(9), Person)]
    /\ docs = [pk \in PKs |-> BuildDocument(pk, recs[pk])]
    /\ disk = docs
    /\ tx = "none"
    /\ pc = "idle"
    /\ args = NoArgs
    /\ queue = <<>>
    /\ counter = 0
    /\ log = <<>>
    /\ trace = <<>>
    /\ out = NoOut
    /\ prior = NoRun
    /\ found = NoFound
    /\ cv = NoCv
    /\ pq = NoPq
    /\ rel = NoRel
    /\ changes = <<>>
    /\ poll = NoPoll

\* the languages a search is given, and the settings it runs under
Overrides == {None, "", "none", "english"}

Settings == {Unset, "none", "french", "multi"}

\* the tags of the declaration for which the field name is declared, as the
\* tag's name in lower case or as one of its aliases
DeclaredFor(idx, field) ==
    {idx.tags[i].prefix : i \in {i \in 1..Len(idx.tags) :
                                    lower(idx.tags[i].prefix) = field}}
    \cup {idx.aliases[j].tag : j \in {j \in 1..Len(idx.aliases) :
              \E b \in 1..Len(idx.aliases[j].names) :
                  idx.aliases[j].names[b] = field}}

\* An indexer is constructed from a declaration and, for one of its aliases
\* and a word, the queries 'tag:word' (the tag's name as declared and in
\* lower case) and 'alias:word' are parsed
Parse(decl, k, a, word, stemming_lang, setting) ==
    LET idx == Construct(decl)
    IN /\ k \in 1..Len(decl.aliases)
       /\ a \in 1..Len(decl.aliases[k].names)
       /\ pq' = IF idx.exc # "none"
                THEN [NoPq EXCEPT !.exc = idx.exc, !.name = decl.aliases[k].tag,
                                  !.alias = decl.aliases[k].names[a],
                                  !.missing = ~has_tag(decl.tags, decl.aliases[k].tag)]
                ELSE LET name == decl.aliases[k].tag
                         alias == decl.aliases[k].names[a]
                         q(f) == _parse_query(idx, f, word, stemming_lang, setting)
                     IN [exc |-> "none", name |-> name, alias |-> alias,
                         word |-> word,
                         missing |-> ~has_tag(decl.tags, name),
                         collides |->
                             \E t \in DeclaredFor(idx, alias)
                                        \cup DeclaredFor(idx, lower(name)) :
                                 upper(t) # upper(name),
                         by_name |-> q(name).parsed,
                         by_lower |-> q(lower(name)).parsed,
                         by_alias |-> q(alias).parsed,
                         stemming_lang |-> stemming_lang, setting |-> setting,
                         stemmer |-> q(alias).stemmer]
       /\ UNCHANGED <<binding, recs, docs, disk, tx, pc, args, queue, counter, log, trace, out,
                      prior, found, cv, rel, changes, poll>>

NextParse ==
    \E decl \in Declarations, k, a \in 1..2, word \in {WordAlex, WordBob},
       stemming_lang \in Overrides, setting \in Settings :
        Parse(decl, k, a, word, stemming_lang, setting)

SpecParse == InitParse /\ [][NextParse]_vars

\* C12 as stated: for every tag and every alias registered for it, the
\* queries 'alias:word' and 'tag:word' parse to the same prefixed term and
\* match the same documents, and an alias for a tag that does not exist makes
\* the construction of the indexer fail
AliasEquivalence ==
    pq # NoPq =>
        IF pq.exc = "none"
        THEN /\ pq.by_alias = pq.by_name
             /\ Cardinality(pq.by_alias.terms) = 1
             /\ \A t \in pq.by_alias.terms : t.prefix # <<>>
             /\ Matches(disk, pq.by_alias) = Matches(disk, pq.by_name)
        ELSE pq.exc = "ValueError"

\* C12 amended: the queries 'alias:word' and 'tag:word' with the tag's name
\* in lower case parse to the same prefixed term, the word under the tag's
\* name in upper case, and match the same documents, when neither the alias
\* nor the tag's name in lower case is also the lower-case name or an alias
\* of a tag with another prefix; the construction of the indexer fails with
\* ValueError exactly when an alias is declared for a tag that does not exist
AliasEquivalenceLowerCase ==
    pq # NoPq =>
        IF pq.exc = "none"
        THEN /\ ~pq.missing
             /\ ~pq.collides =>
                /\ pq.by_alias = pq.by_lower
                /\ pq.by_alias.terms = {[prefix |-> upper(pq.name),
                                         word |-> lower(pq.word)]}
                /\ Matches(disk, pq.by_alias) = Matches(disk, pq.by_lower)
        ELSE pq.exc = "ValueError" /\ pq.missing

\* C12: 'user:alex' and 'author:alex' both parse to AUTHORalex and match the
\* documents of the index
AliasQueryMatched ==
    /\ pq.exc = "none"
    /\ pq.name = NameAuthor
    /\ pq.alias = NameUser
    /\ ~pq.collides
    /\ pq.by_alias = pq.by_name
    /\ Matches(disk, pq.by_alias) = 1..MaxPk

\* ---- the read path: Indexer._do_related ---------------------------------
\* the number of expansion terms asked for, bounded from below only
ClampLowerOnly(n) == IF n < 10 THEN 10 ELSE n

\* count = len(matches), raised to 10 and cut to 40 (lines 357-361)
ClampCount(n) ==
    LET count == IF n < 10 THEN 10 ELSE n
    IN IF count > 40 THEN 40 ELSE count

\* rdocs after the loop of lines 362-363: the docids of the matches
RSetOf(matches) == {matches[i] : i \in 1..Len(matches)}

RECURSIVE StripTags(_, _)
\* the loop over self.tags for a term that is not lower-case (lines
\* 372-376): what it appends to query; the name term is rebound to the
\* stripped term, which the tests for the following tags then see
StripTags(term, tgs) ==
    IF tgs = <<>> THEN <<>>
    ELSE LET tag == get_tag(Head(tgs))
         IN IF startswith(term, tag)
            THEN <<SliceFrom(term, Len(tag))>>
                 \o StripTags(SliceFrom(term, Len(tag)), Tail(tgs))
            ELSE StripTags(term, Tail(tgs))

\* what one expansion term adds to query (lines 369-376)
Added(term, tgs) == IF islower(term) THEN <<term>> ELSE StripTags(term, tgs)

RECURSIVE Join(_, _)
\* sep.join(tokens)
Join(sep, tokens) ==
    IF tokens = <<>> THEN <<>>
    ELSE IF Len(tokens) = 1 THEN tokens[1]
    ELSE tokens[1] \o sep \o Join(sep, Tail(tokens))

\* ' OR '
SepOr == <<32, 79, 82, 32>>

\* _do_related(matches): the engine returns the expansion terms eset for the
\* count and the relevance set it is given; order is the order in which
\* Python iterates over set(query)
_do_related(matches, tgs, eset, order) ==
    [n |-> Len(matches),
     count |-> ClampCount(Len(matches)),
     rset |-> RSetOf(matches),
     tags |-> tgs,
     terms |-> eset,
     added |-> [t \in eset |-> Added(t, tgs)],
     tokens |-> order,
     query |-> Join(SepOr, order)]

\* set(query): the tokens added for the terms of eset
QuerySet(tgs, eset) ==
    UNION {{Added(t, tgs)[i] : i \in 1..Len(Added(t, tgs))} : t \in eset}

\* the orders in which a set can be iterated over
Orders(S) ==
    {q \in [1..Cardinality(S) -> S] : \A i, j \in 1..Cardinality(S) :
                                         i # j => q[i] # q[j]}

\* tag lists: the tags of the modelled EntryIndexer, tags "a" and "ab"
\* declared in either order, and tags "a" and "b"
TagLists ==
    {tags,
     TagsOf(<< [prefix |-> <<97>>, path |-> <<"text">>, weight |-> DEFAULT_WEIGHT],
               [prefix |-> <<98>>, path |-> <<"text">>, weight |-> DEFAULT_WEIGHT] >>),
     TagsOf(<< [prefix |-> <<97>>, path |-> <<"text">>, weight |-> DEFAULT_WEIGHT],
               [prefix |-> <<97, 98>>, path |-> <<"text">>, weight |-> DEFAULT_WEIGHT] >>),
     TagsOf(<< [prefix |-> <<97, 98>>, path |-> <<"text">>, weight |-> DEFAULT_WEIGHT],
               [prefix |-> <<97>>, path |-> <<"text">>, weight |-> DEFAULT_WEIGHT] >>)}

\* expansion sets the engine returns, of the terms "alex", "AUTHORalex",
\* "COUNT9", "Zalex" (a stemmed term), "2008", "Afoo" and "ABfoo"
ExpansionSets ==
    {{},
     {WordAlex},
     {WordAlex, upper(NameAuthor) \o WordAlex},
     {upper(NameCount) \o <<57>>, <<90>> \o WordAlex},
     {<<65, 66, 102, 111, 111>>},
     {<<65, 102, 111, 111>>, <<50, 48, 48, 56>>}}

InitRelated ==
    /\ binding = "flushed"
    /\ recs = [pk \in PKs |-> Entry(TRUE, IntVal(9), Person)]
    /\ docs = [pk \in PKs |-> BuildDocument(pk, recs[pk])]
    /\ disk = docs
    /\ tx = "none"
    /\ pc = "idle"
    /\ args = NoArgs
    /\ queue = <<>>
    /\ counter = 0
    /\ log = <<>>
    /\ trace = <<>>
    /\ out = NoOut
    /\ prior = NoRun
    /\ found = NoFound
    /\ cv = NoCv
    /\ pq = NoPq
    /\ rel = NoRel
    /\ changes = <<>>
    /\ poll = NoPoll

\* related is asked for the n matches with docids 1..n
Related(n, tgs, eset, order) ==
    /\ order \in Orders(QuerySet(tgs, eset))
    /\ rel' = _do_related([i \in 1..n |-> i], tgs, eset, order)
    /\ UNCHANGED <<binding, recs, docs, disk, tx, pc, args, queue, counter, log, trace, out,
                   prior, found, cv, pq, changes, poll>>

NextRelated ==
    \E n \in 0..MaxMatches, tgs \in TagLists, eset \in ExpansionSets :
        \E order \in Orders(QuerySet(tgs, eset)) : Related(n, tgs, eset, order)

SpecRelated == InitRelated /\ [][NextRelated]_vars

\* C13: for n supplied matches related asks the engine for n expansion terms
\* clamped into [10, 40], and every supplied match is in the relevance set
RelatedTermBound ==
    rel # NoRel =>
        /\ rel.count = (IF rel.n < 10 THEN 10 ELSE IF rel.n <= 40 THEN rel.n ELSE 40)
        /\ rel.rset = 1..rel.n

\* C13: related was given more than 40 matches and asked for 40 terms
RelatedAboveUpperBound ==
    /\ rel.n = MaxMatches
    /\ rel.n > 40
    /\ rel.count = 40
    /\ Cardinality(rel.rset) = rel.n

\* the remainders of term after each registered tag prefix it begins with
Remainders(term, tgs) ==
    {SliceFrom(term, Len(get_tag(tgs[i]))) :
        i \in {j \in 1..Len(tgs) : startswith(term, get_tag(tgs[j]))}}

\* C20 as stated: the query is the ' OR ' join of a duplicate-free token set
\* that holds every lower-case expansion term, a remainder of every other
\* term that begins with a registered tag prefix, and nothing but lower-case
\* terms and remainders of a term after a tag prefix that term begins with
RelatedQueryTokens ==
    rel # NoRel =>
        LET tokens == {rel.tokens[i] : i \in 1..Len(rel.tokens)}
        IN /\ rel.query = Join(SepOr, rel.tokens)
           /\ \A i, j \in 1..Len(rel.tokens) : i # j => rel.tokens[i] # rel.tokens[j]
           /\ \A t \in rel.terms :
                 IF islower(t) THEN t \in tokens
                 ELSE Remainders(t, rel.tags) # {}
                         => Remainders(t, rel.tags) \cap tokens # {}
           /\ tokens \subseteq
                 UNION {IF islower(t) THEN {t} ELSE Remainders(t, rel.tags) :
                          t \in rel.terms}

\* C14 as stated: a stemming language given to search is the one the parser
\* stems with, where "none" (like the empty string) means no stemming; only
\* when none is given does the parser stem with the global default, and not
\* at all when that is the multi-language mode
OverrideTakesPriority ==
    (pq # NoPq /\ pq.exc = "none") =>
        IF pq.stemming_lang # None
        THEN IF pq.stemming_lang \in {"none", ""}
             THEN pq.stemmer \in {"none", None}
             ELSE pq.stemmer = pq.stemming_lang
        ELSE IF pq.setting \in {"multi", Unset} THEN pq.stemmer = "none"
             ELSE pq.stemmer = pq.setting

\* ---- the protocol of engine calls ----------------------------------------
\* the arguments of the update the trace belongs to
RunArgs == IF pc = "idle" THEN prior.args ELSE args

\* the positions of the trace where the loop takes a record
RecordMarks == {i \in 1..Len(trace) : trace[i].op = "record"}

\* the calls made for the record taken at position i: up to the next record
Segment(i) ==
    {j \in (i + 1)..Len(trace) : \A k \in RecordMarks : k > i => j < k}

\* the place in the batch of the record taken at position i
Rank(i) == Cardinality({k \in RecordMarks : k <= i})

\* the iteration of the record taken at position i is over
IterationOver(i) == Rank(i) <= Len(log)

\* C15 as stated: with transactions on, the engine sees for every record
\* begin, then the record's mutations inside the transaction, then exactly
\* one terminating call that takes effect, commit when the record succeeded
\* and cancel when it failed; begin and flush are never called while a
\* transaction is open
TransactionProtocol ==
    RunArgs.transaction =>
        /\ \A j \in 1..Len(trace) :
              trace[j].op \in {"begin_transaction", "flush"} => trace[j].tx = "none"
        /\ \A i \in RecordMarks :
              /\ (i < Len(trace) \/ pc = "idle")
                    => /\ i < Len(trace)
                       /\ trace[i + 1].op = "begin_transaction"
                       /\ trace[i + 1].exc = "none"
              /\ \A j \in Segment(i) :
                    trace[j].op \in {"delete_document", "replace_document"}
                        => trace[j].tx # "none"
              /\ IterationOver(i) =>
                    LET ended == {j \in Segment(i) :
                                     /\ trace[j].op \in {"commit_transaction",
                                                         "cancel_transaction"}
                                     /\ trace[j].exc = "none"}
                    IN /\ Cardinality(ended) = 1
                       /\ \A j \in ended :
                             trace[j].op = IF log[Rank(i)].failed
                                           THEN "cancel_transaction"
                                           ELSE "commit_transaction"

\* the explicit flushes the flags ask for after the record at place k of the
\* batch
FlushesAfter(a, k) ==
    IF ~a.flush THEN (IF k % FlushEvery = 0 THEN 1 ELSE 0)
    ELSE IF a.transaction THEN 0
    ELSE 1

\* C16 as stated: when update completes, every record was followed by the
\* explicit flushes its flags ask for (one with transaction off and flush
\* on, one after every 1000th record with flush off, none with transaction
\* on and flush on), and one final flush follows the last record
FlushSchedule ==
    (pc = "idle" /\ out.op = "update" /\ out.exc = "none") =>
        /\ trace # <<>>
        /\ trace[Len(trace)].op = "flush"
        /\ RecordMarks = {} => Len(trace) = 1
        /\ \A i \in RecordMarks :
              Cardinality({j \in Segment(i) : trace[j].op = "flush"})
                 = FlushesAfter(prior.args, Rank(i))
                   + (IF \A k \in RecordMarks : k <= i THEN 1 ELSE 0)

\* ---- a long batch ---------------------------------------------------------
\* the pass after the try/except ended as it: the log entry, and the flush
\* policy unless the block ended in `continue`
Flushed(st, pk, a, it, had, f) ==
    [db |-> IF it.cont THEN it.db ELSE f.db,
     counter |-> IF it.cont THEN st.counter ELSE f.counter,
     log |-> Append(st.log, [pk |-> pk, fault |-> "none", called |-> it.called,
                             failed |-> it.failed, had |-> had])]

Iterated(st, pk, a, it, had) ==
    Flushed(st, pk, a, it, had, FlushStep(it.db, a, st.counter))

\* the pass after begin() returned the handle d
Begun(st, pk, rs, a, d) ==
    Iterated(st, pk, a, Iteration(d, pk, rs[pk], a, "none"),
             Positions(d.docs, _create_uid(pk)) # {})

\* One pass of the loop (lines 227-286) for a record that raises nothing (so,
\* under transactions, in a build whose begin_transaction takes the keyword
\* flush), on the state st = [db, counter, log] of update: what Begin, Body
\* and FlushPolicy do in turn.
ProcessOne(st, pk, rs, a) ==
    Begun(st, pk, rs, a,
          begin([st.db EXCEPT !.calls =
                    Append(@, [op |-> "record", tx |-> st.db.tx, exc |-> "none"])],
                a, "flush"))

RECURSIVE Processed(_, _, _, _, _)
\* the state of update after the passes for the records lo..hi
Processed(st, lo, hi, rs, a) ==
    IF lo > hi THEN st
    ELSE IF lo = hi THEN ProcessOne(st, lo, rs, a)
    ELSE CHOOSE end \in {Processed(half, (lo + hi) \div 2 + 1, hi, rs, a) :
                             half \in {Processed(st, lo, (lo + hi) \div 2, rs, a)}} : TRUE

\* the records of the long batch that update has still to process
BatchRest == 3

\* MaxBatch entries were all indexed while active, and all but the last have
\* been deactivated since; update(entries, None, transaction, False) is
\* running over them and has processed all but the last BatchRest of them.
InitBatch ==
    /\ binding \in {"flushed", "flush"}
    /\ recs = [pk \in 1..MaxBatch |->
                  Entry(pk = MaxBatch, IntVal(9), Person)]
    /\ \E t \in {FALSE} \cup {binding = "flush"} :
       \E a \in {[documents |-> Documents([i \in 1..MaxBatch |-> i]),
                  after_index |-> FALSE, transaction |-> t, flush |-> FALSE,
                  caller |-> "update"]} :
       \E index \in {[pk \in 1..MaxBatch |->
                          BuildDocument(pk, [recs[pk] EXCEPT !.is_active = TRUE])]} :
       \E st \in {Processed([db |-> [docs |-> index, disk |-> index,
                                      tx |-> "none", calls |-> <<>>],
                              counter |-> 0, log |-> <<>>],
                             1, MaxBatch - BatchRest, recs, a)} :
          /\ docs = st.db.docs
          /\ disk = st.db.disk
          /\ tx = st.db.tx
          /\ args = a
          /\ queue = [i \in 1..BatchRest |-> MaxBatch - BatchRest + i]
          /\ counter = st.counter
          /\ log = st.log
          /\ trace = st.db.calls
    /\ pc = "loop"
    /\ out = NoOut
    /\ prior = NoRun
    /\ found = NoFound
    /\ cv = NoCv
    /\ pq = NoPq
    /\ rel = NoRel
    /\ changes = <<>>
    /\ poll = NoPoll

\* update goes on with the rest of the batch
NextBatch ==
    \/ Begin
    \/ \E fault \in Faults : Body(fault)
    \/ FlushPolicy
    \/ FinalFlush

SpecBatch == InitBatch /\ [][NextBatch]_vars

\* the record mutations the engine has applied since its last flush, or
\* since the start of the batch
PendingMutations ==
    LET flushes == {j \in 1..Len(trace) : trace[j].op = "flush"}
        last == IF flushes = {} THEN 0
                ELSE CHOOSE j \in flushes : \A k \in flushes : k <= j
    IN Cardinality({j \in (last + 1)..Len(trace) :
                       /\ trace[j].op \in {"delete_document", "replace_document"}
                       /\ trace[j].exc = "none"})

\* C17 as stated: with flush off, at no point of an update have more than
\* 1000 record mutations been applied since the last flush or the start of
\* the batch
BoundedUnflushedWork ==
    (pc # "idle" /\ ~args.flush) => PendingMutations <= FlushEvery

\* C18 as stated: a boolean is encoded as 't' when true and 'f' when false,
\* both for a declared boolean field and when the kind is inferred from the
\* resolved value (a computed or nested accessor)
BooleanEncoding ==
    cv.kind = "bool"
    => /\ cv.ea = (IF cv.a THEN <<116>> ELSE <<102>>)
       /\ cv.eb = (IF cv.b THEN <<116>> ELSE <<102>>)


\* ---- a record that lacks a path segment ---------------------------------
\* the first entry has an author who may lack a name, may have tags and may
\* have an editor; the others are as setUp creates them
InitFields ==
    /\ binding \in {"flushed", "flush"}
    /\ recs \in {[pk \in PKs |->
                     IF pk = 1
                     THEN [Entry(is_active, IntVal(9), author)
                               EXCEPT !.tags = t, !.editors = editors]
                     ELSE Entry(TRUE, IntVal(9), Person)] :
                 is_active \in BOOLEAN, author \in {Person, Stranger},
                 t \in {Null, NotNull(EntryTags)}, editors \in {<<>>, <<Person>>}}
    /\ docs = <<>>
    /\ disk = <<>>
    /\ tx = "none"
    /\ pc = "idle"
    /\ args = NoArgs
    /\ queue = <<>>
    /\ counter = 0
    /\ log = <<>>
    /\ trace = <<>>
    /\ out = NoOut
    /\ prior = NoRun
    /\ found = NoFound
    /\ cv = NoCv
    /\ pq = NoPq
    /\ rel = NoRel
    /\ changes = <<>>
    /\ poll = NoPoll

NextFields ==
    \/ \E c \in Calls, t, f \in BOOLEAN :
          UpdateStart(c.documents, c.after_index, t, f)
    \/ Begin
    \/ \E fault \in Faults : Body(fault)
    \/ FlushPolicy
    \/ FinalFlush

SpecFields == InitFields /\ [][NextFields]_vars

\* the try block has just been left for a record with a true trigger whose
\* author has no name, and nothing else went wrong: no fault, and no editor
\* whose join raises TypeError
AuthorNameMissing ==
    /\ pc = "flush"
    /\ log[Len(log)].fault = "none"
    /\ trigger(recs[log[Len(log)].pk])
    /\ "name" \notin DOMAIN recs[log[Len(log)].pk].author
    /\ recs[log[Len(log)].pk].editors = <<>>

\* the fields and tags other than the author tag, in the order of the loop
OtherFields == SelectSeq(fields \o tags, LAMBDA f : f.prefix # NameAuthor)

\* the document of the record as it is when its author has a name
Named(pk, r) == BuildDocument(pk, [r EXCEPT !.author = Person])

\* the postings of that document without those of the author's name
WithoutAuthor(pk, r) ==
    SelectSeq(Named(pk, r).terms, LAMBDA t : t.word # Text(lower(PersonName)))

\* C19: when author.name cannot be resolved only the author tag is skipped:
\* the record's document is replaced and holds no value slot and no term of
\* the author tag, the free-text field and then the other tags are indexed
\* as they are for a record whose author has a name, and the record has not
\* failed
FieldFailureIsolation ==
    AuthorNameMissing
    => /\ ~log[Len(log)].failed
       /\ log[Len(log)].called = args.after_index
       /\ \E j \in 1..Len(trace) :
             /\ trace[j] = [op |-> "replace_document",
                            tx |-> trace[j].tx, exc |-> "none"]
             /\ \A k \in (j + 1)..Len(trace) : trace[k].op = "commit_transaction"
       /\ Cardinality(Positions(docs, _create_uid(log[Len(log)].pk))) = 1
       /\ \A i \in Positions(docs, _create_uid(log[Len(log)].pk)) :
             /\ tag_index(NameAuthor) \notin DOMAIN docs[i].values
             /\ \A k \in 1..Len(docs[i].terms) :
                   docs[i].terms[k].prefix # Text(upper(NameAuthor))
             /\ docs[i].terms[1]
                   = [prefix |-> "", word |-> Text(lower(recs[log[Len(log)].pk].text)),
                      weight |-> DEFAULT_WEIGHT]
             /\ docs[i].values[tag_index(NameCount)]
                   = Text(FormatZeroPad(IntWidth, recs[log[Len(log)].pk].asset_count))
             /\ \A f \in 1..Len(OtherFields) :
                   OtherFields[f].prefix # <<>>
                   => (OtherFields[f].number \in DOMAIN docs[i].values
                       <=> (OtherFields[f].prefix # NameTag
                            \/ ~recs[log[Len(log)].pk].tags.none))
             /\ docs[i].terms = WithoutAuthor(log[Len(log)].pk, recs[log[Len(log)].pk])
             /\ \A n \in DOMAIN docs[i].values :
                   docs[i].values[n]
                       = Named(log[Len(log)].pk, recs[log[Len(log)].pk]).values[n]

\* C19: such a record has been processed by an update that invokes a
\* callback
AuthorNameMissingDone ==
    /\ AuthorNameMissing
    /\ args.after_index
    /\ Positions(docs, _create_uid(log[Len(log)].pk)) # {}


\* ---- the completion callback ---------------------------------------------
\* the loop body ends for the record at the head of the queue, and the
\* completion callback has been invoked for it
CallbackInvoked ==
    /\ pc = "body"
    /\ Len(log') = Len(log) + 1
    /\ log'[Len(log')].called

\* C21 as stated: the completion callback is invoked at most once per record,
\* never for a record whose trigger is false and never before the record's
\* document has been replaced, and when the iteration of a record ends for
\* which it was invoked the record's new document is in the index
CallbackSoundness ==
    [][CallbackInvoked
       => LET pk == Head(queue)
          IN /\ \A i \in 1..Len(log) : log[i].pk = pk => ~log[i].called
             /\ trigger(recs[pk])
             /\ \E j \in 1..Len(trace') :
                   /\ j > Len(trace)
                   /\ trace'[j].op = "replace_document"
                   /\ trace'[j].exc = "none"
             /\ \E i \in Positions(docs', _create_uid(pk)) :
                   docs'[i] = BuildDocument(pk, recs[pk])]_vars


\* ---- the polling loop (update_changes of the index command) --------------
\* the change logs of the model: up to two entries, each a row of its own
\* and an upsert ("edit") or a "delete" of the record with that primary key;
\* two rows may name the same record and action
ChangeLogs ==
    {<<>>}
    \cup {<<[pk |-> pk, action |-> a]>> : pk \in PKs, a \in {"edit", "delete"}}
    \cup [1..2 -> [pk : PKs, action : {"edit", "delete"}]]

\* the index when the loop starts: empty, or one document per record, built
\* when every record was active
InitPoll ==
    /\ binding \in {"flushed", "flush"}
    /\ recs \in [PKs -> {Entry(is_active, IntVal(9), Person) : is_active \in BOOLEAN}]
    /\ docs \in {<<>>,
                 [pk \in PKs |-> BuildDocument(pk, [recs[pk] EXCEPT !.is_active = TRUE])]}
    /\ disk = docs
    /\ tx = "none"
    /\ pc = "idle"
    /\ args = NoArgs
    /\ queue = <<>>
    /\ counter = 0
    /\ log = <<>>
    /\ trace = <<>>
    /\ out = NoOut
    /\ prior = NoRun
    /\ found = NoFound
    /\ cv = NoCv
    /\ pq = NoPq
    /\ rel = NoRel
    /\ changes \in ChangeLogs
    /\ poll = NoPoll

\* update_changes(verbose, timeout, once, use_transaction, flush) is called
UpdateChanges(once, transaction, flush_) ==
    /\ poll.pc = "none"
    /\ pc = "idle"
    /\ poll' = [pc |-> "fetch", once |-> once, transaction |-> transaction,
                flush |-> flush_, todo |-> <<>>, passes |-> 0, exc |-> "none"]
    /\ UNCHANGED <<binding, recs, docs, disk, tx, pc, args, queue, counter, log, trace, out,
                   prior, found, cv, pq, rel, changes>>

\* line 23: a pass begins with the entries the log holds now
Fetch ==
    /\ poll.pc = "fetch"
    /\ poll' = [poll EXCEPT !.pc = "iter", !.todo = changes, !.passes = @ + 1]
    /\ UNCHANGED <<binding, recs, docs, disk, tx, pc, args, queue, counter, log, trace, out,
                   prior, found, cv, pq, rel, changes>>

\* lines 36-40 for the next entry of the pass and the indexer of its record
\* type: indexer.delete(object_id), where err is the error the engine raises,
\* or indexer.update([object], after_index, use_transaction, flush) is called
Apply(err) ==
    /\ poll.pc = "iter"
    /\ poll.todo # <<>>
    /\ pc = "idle"
    /\ IF Head(poll.todo).action = "delete"
       THEN /\ LET d == delete(Handle, Head(poll.todo).pk, err)
                   c == close(d)
               IN /\ docs' = c.docs
                  /\ disk' = c.disk
                  /\ tx' = c.tx
                  /\ out' = [op |-> "delete", pk |-> Head(poll.todo).pk, err |-> err,
                              exc |-> d.exc, before |-> docs]
            /\ log' = <<>>
            /\ trace' = <<>>
            /\ prior' = NoRun
            /\ found' = NoFound
            /\ UNCHANGED <<pc, args, queue, counter>>
       ELSE /\ err = "none"
            /\ Enter([documents |-> Documents(<<Head(poll.todo).pk>>),
                      after_index |-> TRUE, transaction |-> poll.transaction,
                      flush |-> poll.flush, caller |-> "update"],
                     docs)
            /\ UNCHANGED <<docs, disk, tx>>
    /\ poll' = [poll EXCEPT !.pc = "applied"]
    /\ UNCHANGED <<binding, recs, cv, pq, rel, changes>>

\* the log q without one row equal to e: the first of them, rows that are
\* equal being the same to every reader of the log
Without(q, e) ==
    LET first == CHOOSE i \in 1..Len(q) :
                     q[i] = e /\ \A j \in 1..(i - 1) : q[j] # e
    IN SubSeq(q, 1, first - 1) \o SubSeq(q, first + 1, Len(q))

\* line 41: the call on the indexer has returned and change.delete() removes
\* the row of the entry, and no other; an exception of the call leaves
\* update_changes instead
Remove ==
    /\ poll.pc = "applied"
    /\ pc = "idle"
    /\ IF out.exc # "none"
       THEN /\ poll' = [poll EXCEPT !.pc = "raised", !.exc = out.exc]
            /\ UNCHANGED changes
       ELSE /\ poll' = [poll EXCEPT !.pc = "iter", !.todo = Tail(@)]
            /\ changes' = Without(changes, Head(poll.todo))
    /\ UNCHANGED <<binding, recs, docs, disk, tx, pc, args, queue, counter, log, trace, out,
                   prior, found, cv, pq, rel>>

\* lines 49-54: the pass is over; transaction.commit(), then break with the
\* once option, and otherwise time.sleep(timeout), which raises NameError
\* because the module does not import time
EndPass ==
    /\ poll.pc = "iter"
    /\ poll.todo = <<>>
    /\ poll' = IF poll.once THEN [poll EXCEPT !.pc = "done"]
               ELSE [poll EXCEPT !.pc = "raised", !.exc = "NameError"]
    /\ UNCHANGED <<binding, recs, docs, disk, tx, pc, args, queue, counter, log, trace, out,
                   prior, found, cv, pq, rel, changes>>

NextPoll ==
    \/ \E once, t, f \in BOOLEAN : UpdateChanges(once, t, f)
    \/ Fetch
    \/ \E err \in {"none"} \cup Caught : Apply(err)
    \/ Begin
    \/ \E fault \in Faults : Body(fault)
    \/ FlushPolicy
    \/ FinalFlush
    \/ Remove
    \/ EndPass

SpecPoll == InitPoll /\ [][NextPoll]_vars

\* the change of entry e is in the index that readers see
Applied(e) ==
    IF e.action = "delete" \/ ~trigger(recs[e.pk])
    THEN Positions(disk, _create_uid(e.pk)) = {}
    ELSE \E i \in Positions(disk, _create_uid(e.pk)) :
            disk[i] = BuildDocument(e.pk, recs[e.pk])

\* C22 as stated: an entry is removed from the change log only when its
\* change has been applied to the index, an upsert by the record's document
\* being in the index (or absent when its trigger is false) and a delete by
\* its absence; and with the once option the loop makes one pass only
NoLostChange ==
    [][/\ Len(changes') < Len(changes) => Applied(Head(poll.todo))
       /\ poll'.once => poll'.passes <= 1]_vars

====
